---- MODULE Spec2Model ----
(***************************************************************************)
(* Model of the news ingestion backend: the two pipeline runs              *)
(* (analyze_gnews_data, analyze_news_data), the two dedup-and-persist      *)
(* stages (save_processed_gnews_articles, save_processed_articles), the    *)
(* tables they write (gnews_summaries, processed_articles), the components *)
(* a run calls (fetch_page_content, generate_summary_from_text, the two    *)
(* headline adapters) and the scheduled job wrapper with its session.      *)
(*                                                                         *)
(* Every `await` of the code is a suspension point: code between two       *)
(* awaits is one action, so that concurrent callers interleave exactly     *)
(* where the event loop (or a second process) lets them.                   *)
(***************************************************************************)
EXTENDS Integers, Sequences, FiniteSets, TLC

\* ---------------------------------------------------------------- bounds
NumKeys == 2
MaxBatch == 2
NumProcs == 2

Procs == 1..NumProcs
Keys == 1..NumKeys
\* 0 stands for a missing key (None or the empty string): `not url`.
NoKey == 0
\* A missing value (Python None).
NONE == "none"
Sources == {"gnews", "news"}

VARIABLES
    source,                   \* which news API, hence which pipeline, persist and table
    feed,                     \* the items the callers' batches are taken from
    storage,                  \* rows of the table, in insertion order
    pc,                       \* pc[p]: where caller p stands
    idx,                      \* idx[p]: position of p's for loop in its list
    processed_articles,       \* the batch handed to persist (the run's output list)
    existing,                 \* existing_urls / existing_article_ids of the pre-check
    articles_to_add,          \* records prepared for insertion
    articles_added_count,
    articles_skipped_count,
    session,                  \* session[p]: "ok" or "failed" (needs rollback)
    result,                   \* what the call returned, or that it raised
    outcome,                  \* which way the commit went
    prev,                     \* result of the preceding call on the same batch
    fresh,                    \* the batch was well-formed, distinct, not stored
    alone,                    \* no other caller was active since the call began
    articles,                 \* articles[p]: the candidates the headline source returned
    text,                     \* article_text_to_summarize of the article in hand
    sumlog,                   \* per output article: what the Summarizer call gave
    run,                      \* run[p]: how the pipeline run of p's firing went
    genai_configured,         \* the module flag set when the AI SDK was configured
    calls,                    \* calls[p]: what the firing has called so far
    db,                       \* db[p]: the session the job wrapper holds, 0 for none
    ended,                    \* how the last firing ended
    sched,                    \* the scheduler's last decision on a due firing
    request,                  \* the session of an HTTP request in flight, 0 for none
    unit,                     \* unit[p]: a direct call of fetch, summarize or fetch_batch
    trace,                    \* trace[p]: what the persist call did and logged, in order
    process,                  \* the server process: its environment and how far it started
    response                  \* what the read endpoint of the request in flight is doing

vars == <<source, feed, storage, pc, idx, processed_articles, existing, articles_to_add,
          articles_added_count, articles_skipped_count, session, result,
          outcome, prev, fresh, alone, articles, text, sumlog, run,
          genai_configured, calls, db, ended, sched, request, unit, trace,
          process, response>>

\* ------------------------------------------------------------- the data
\* A ProcessedArticle dictionary, as far as persist reads it.  wf says
\* whether the fields not modelled one by one (published_at, source_name,
\* image_url, ...) coerce into the storage record shape.
Item(k, t, l, d, s, g, w) ==
    [key |-> k, title |-> t, link |-> l, description |-> d, summary |-> s,
     summary_generated_at |-> g, wf |-> w]

\* The inputs of a direct persist call.
PersistItems ==
    {Item(k, t, "l", "desc", "desc", FALSE, w) :
        k \in {NoKey} \cup Keys, t \in {NONE, "t"}, w \in BOOLEAN}

BatchesOf(S) == UNION {[1..n -> S] : n \in 0..MaxBatch}

\* The contiguous parts of a list, the empty one included.
SubBatches(list) ==
    {SubSeq(list, a, b) : a \in 1..(Len(list) + 1), b \in 0..Len(list)}

\* A row of gnews_summaries (key is url) or processed_articles (key is
\* article_id), mapped field by field from the validated item.
\* published_at is the article's own: one time per article, later for a
\* higher key.
PublishedAt(key) == key

RowOfDescription(item) ==
    [key |-> item.key, summary |-> item.description,
     summary_generated_at |-> item.summary_generated_at,
     published_at |-> PublishedAt(item.key)]
Row(item) ==
    [key |-> item.key, summary |-> item.summary,
     summary_generated_at |-> item.summary_generated_at,
     published_at |-> PublishedAt(item.key)]

\* db.add_all(articles_to_add): one pending row per prepared record.
OnlyFirstRow(items) ==
    IF items = <<>> THEN <<>> ELSE <<Row(Head(items))>>
RECURSIVE MapRows(_)
MapRows(items) ==
    IF items = <<>> THEN <<>> ELSE <<Row(Head(items))>> \o MapRows(Tail(items))

KeysOf(rows) == {rows[i].key : i \in DOMAIN rows}

\* The unique constraint on url / article_id, checked by the database when
\* the pending rows are flushed.
NoUniqueConstraint(tbl, pend) == FALSE
ClashesWithTable(tbl, pend) ==
    \E i \in DOMAIN pend : pend[i].key \in KeysOf(tbl)

UniqueViolation(tbl, pend) ==
    \/ \E i \in DOMAIN pend : pend[i].key \in KeysOf(tbl)
    \/ \E i, j \in DOMAIN pend : i # j /\ pend[i].key = pend[j].key

\* GNewsSummaryData(**article_data) / ArticleForProcessing(...): the item
\* coerces into the record shape.
Valid(item) == item.wf

NoResult == [kind |-> "none", added |-> 0, skipped |-> 0]
Counts(a, s) == [kind |-> "counts", added |-> a, skipped |-> s]
Raised == [kind |-> "raised", added |-> 0, skipped |-> 0]
ReturnsNone == [kind |-> "None", added |-> 0, skipped |-> 0]
NoPrev == [kind |-> "none", added |-> 0, skipped |-> 0, via |-> "none",
           alone |-> TRUE]

\* ------------------------------------------- save_processed_gnews_articles
\* potential_urls / potential_ids: the non-empty keys of the batch.
PotentialKeys(batch) == {batch[i].key : i \in DOMAIN batch} \ {NoKey}

\* article_data.get('title', 'N/A')[:50] and pydantic_article.title[:50]
\* raise TypeError when the title is None.
TitlePreviewRaises(item) == item.title = NONE

\* if url_str in existing_urls
KnownDuplicate(key, known) == key \in known

\* What the loop body does with one item: "skip" counts it as skipped, "add"
\* prepares its record, "raise" is an exception that leaves the function
\* (raised in the branch for a missing url, or in an except handler and then
\* again in the outer handler, which slices the title as well).
ClassifyGnews(item, known) ==
    IF item.key = NoKey
        THEN IF TitlePreviewRaises(item) THEN "raise" ELSE "skip"
    ELSE IF KnownDuplicate(item.key, known) THEN "skip"
    ELSE IF ~Valid(item)
        THEN IF TitlePreviewRaises(item) THEN "raise" ELSE "skip"
    ELSE IF TitlePreviewRaises(item) THEN "raise" ELSE "add"

\* The for loop: it has no await, so it runs to its end (or to the first
\* exception that escapes it) in one step.
RECURSIVE GnewsLoop(_, _, _, _, _)
GnewsLoop(batch, known, i, toAdd, skipped) ==
    IF i > Len(batch)
        THEN [raised |-> FALSE, toAdd |-> toAdd, skipped |-> skipped]
    ELSE LET c == ClassifyGnews(batch[i], known) IN
        IF c = "raise"
            THEN [raised |-> TRUE, toAdd |-> toAdd, skipped |-> skipped]
        ELSE IF c = "skip"
            THEN GnewsLoop(batch, known, i + 1, toAdd, skipped + 1)
        ELSE GnewsLoop(batch, known, i + 1, Append(toAdd, batch[i]), skipped)

\* db.add_all(articles_to_add) and the commit: the rows are inserted.
Replaces(tbl, rows) == rows
Inserted(tbl, rows) == tbl \o rows

\* articles_added_count = len(articles_to_add) after a successful commit.
CountsNothing(toAdd) == 0
CommittedCount(toAdd) == Len(toAdd)

\* An entry of the call's trace: a database call ("commit", "rollback") or a
\* failure, with the level it was logged at ("none": not logged).
Ev(what, level) == [what |-> what, level |-> level]

\* The level of the log record of a failed pre-check query: the URL-keyed
\* persist logs it as an error, the other one lets the exception through.
PreCheckLevel(src) == IF src = "gnews" THEN "error" ELSE "none"

\* The level of the log record of a failed commit.  kind is "IntegrityError"
\* for a uniqueness violation (sqlstate 23505), "OtherError" for the rest.
CommitFailureLevel(src, kind) ==
    IF src = "gnews" THEN "error"
    ELSE IF kind = "IntegrityError" THEN "warning" ELSE "error"

\* The except branches of the commit: all pending are counted as skipped.
PendingUncounted(skipped, toAdd) == Counts(0, skipped)
RolledBackCounts(skipped, toAdd) == Counts(0, skipped + Len(toAdd))

\* ----------------------------------------------------------- the state
History == <<prev, fresh, alone>>
\* What no step of a run or of persist changes.
Setting == <<source, feed, genai_configured, request, unit, process, response>>
\* The job wrapper's own state.
Job == <<db, ended, sched>>
Pipeline == <<articles, text, sumlog, run, calls, Job>>

NoCalls == [adapter |-> 0, got |-> "none", fetcher |-> 0, summarizer |-> 0,
            requests |-> 0, persist |-> 0, api |-> "none", offered |-> 0]
NoDecision == [late |-> 0, verdict |-> "none"]
NoReply == [transport |-> "none"]
NoUnit == [fn |-> "none", at |-> "idle", text |-> NONE, reply |-> NoReply,
           ret |-> NONE, raised |-> "none", status_code |-> 0,
           requests |-> 0, html |-> <<>>]

NoResponse == [endpoint |-> "none", at |-> "idle", limit |-> 0, page |-> <<>>,
               status_code |-> 0]

\* ------------------------------------------------------ process startup
\* The environment a process is started in: whether GEMINI_API_KEY is set;
\* whether genai.configure accepts it; ENVIRONMENT (NONE when unset);
\* whether DATABASE_URL is set; whether DB_USER, DB_PASS, DB_NAME and
\* INSTANCE_CONNECTION_NAME are all set; whether the engine can be built.
Envs ==
    [ai_key : BOOLEAN, sdk : {"ok", "raises"},
     environment : {NONE, "local", "production", "staging"},
     database_url : BOOLEAN, db_credentials : BOOLEAN,
     engine : {"ok", "raises"}]

\* config.ENVIRONMENT: os.getenv("ENVIRONMENT").lower() fails on an unset
\* variable; a value other than local or production becomes production.
ENVIRONMENT(env) ==
    IF env.environment = NONE THEN "AttributeError"
    ELSE IF env.environment \in {"local", "production"} THEN env.environment
    ELSE "production"

\* Importing app.database: the branch taken, and whether it raises.
DatabaseRaises(env) ==
    IF env.database_url /\ ENVIRONMENT(env) = "local"
        THEN env.engine = "raises"
    ELSE IF ENVIRONMENT(env) = "production"
        THEN ~env.db_credentials \/ env.engine = "raises"
    ELSE TRUE

\* Importing the application raises: uvicorn does not start the process.
ImportRaises(env) ==
    ENVIRONMENT(env) = "AttributeError" \/ DatabaseRaises(env)

\* genai_configured after the import of summary_helper: a missing key is
\* logged ("FATAL") and the import goes on.
GenaiConfigured(env) == env.ai_key /\ env.sdk = "ok"

JobId == "hourly_article_processing"

Started(env) == [phase |-> "serving", env |-> env, jobs |-> {JobId}]

\* A process that is up, in production, with or without the AI key.
Serving(configured) ==
    Started([ai_key |-> configured, sdk |-> "ok",
             environment |-> "production", database_url |-> FALSE,
             db_credentials |-> TRUE, engine |-> "ok"])

InitCallers ==
    /\ storage = <<>>
    /\ pc = [p \in Procs |-> "idle"]
    /\ idx = [p \in Procs |-> 1]
    /\ processed_articles = [p \in Procs |-> <<>>]
    /\ existing = [p \in Procs |-> {}]
    /\ articles_to_add = [p \in Procs |-> <<>>]
    /\ articles_added_count = [p \in Procs |-> 0]
    /\ articles_skipped_count = [p \in Procs |-> 0]
    /\ session = [p \in Procs |-> "ok"]
    /\ result = [p \in Procs |-> NoResult]
    /\ outcome = [p \in Procs |-> "none"]
    /\ prev = [p \in Procs |-> NoPrev]
    /\ fresh = [p \in Procs |-> FALSE]
    /\ alone = [p \in Procs |-> TRUE]
    /\ articles = [p \in Procs |-> <<>>]
    /\ text = [p \in Procs |-> NONE]
    /\ sumlog = [p \in Procs |-> <<>>]
    /\ run = [p \in Procs |-> "none"]
    /\ calls = [p \in Procs |-> NoCalls]
    /\ db = [p \in Procs |-> 0]
    /\ ended = "none"
    /\ sched = NoDecision
    /\ request = 0
    /\ unit = [p \in Procs |-> NoUnit]
    /\ trace = [p \in Procs |-> <<>>]
    /\ response = NoResponse

\* Direct calls of persist, which does not read genai_configured.
Init ==
    /\ genai_configured = TRUE
    /\ process = Serving(TRUE)
    /\ source \in Sources
    /\ feed \in BatchesOf(PersistItems)
    /\ InitCallers

Others(p) == Procs \ {p}
Active(p) == pc[p] # "idle"

\* Entering persist: the locals are initialised.
Enter(p, batch) ==
    /\ processed_articles' = [processed_articles EXCEPT ![p] = batch]
    /\ idx' = [idx EXCEPT ![p] = 1]
    /\ existing' = [existing EXCEPT ![p] = {}]
    /\ articles_to_add' = [articles_to_add EXCEPT ![p] = <<>>]
    /\ articles_added_count' = [articles_added_count EXCEPT ![p] = 0]
    /\ articles_skipped_count' = [articles_skipped_count EXCEPT ![p] = 0]
    /\ result' = [result EXCEPT ![p] = NoResult]
    /\ outcome' = [outcome EXCEPT ![p] = "none"]
    /\ trace' = [trace EXCEPT ![p] = <<>>]
    /\ pc' = [pc EXCEPT ![p] = "precheck"]

\* History kept for the idempotence claim: the batch is made of well-formed
\* records with pairwise distinct keys, none of them stored.
WellFormedFresh(batch) ==
    /\ \A i \in DOMAIN batch :
        batch[i].key # NoKey /\ Valid(batch[i]) /\ batch[i].title # NONE
    /\ \A i, j \in DOMAIN batch : i # j => batch[i].key # batch[j].key
    /\ \A i \in DOMAIN batch : batch[i].key \notin KeysOf(storage)

\* A caller hands a batch to persist on a usable session.
Call(p) ==
    /\ pc[p] = "idle"
    /\ session[p] = "ok"
    /\ \E batch \in SubBatches(feed) :
        /\ Enter(p, batch)
        /\ fresh' = [fresh EXCEPT ![p] = WellFormedFresh(batch)]
    /\ prev' = [prev EXCEPT ![p] = NoPrev]
    /\ alone' = [q \in Procs |->
                    IF q = p THEN \A r \in Others(p) : ~Active(r)
                    ELSE alone[q] /\ ~Active(q)]
    /\ UNCHANGED <<Setting, storage, session, Pipeline>>

\* The same caller calls persist again with the identical batch (the next
\* run finds the same articles).  prev keeps how the first call went, alone
\* starts anew for the second.
CallAgain(p) ==
    /\ pc[p] = "done"
    /\ result[p].kind = "counts"
    /\ prev[p].kind = "none"
    /\ session[p] = "ok"
    /\ Enter(p, processed_articles[p])
    /\ prev' = [prev EXCEPT ![p] =
            [kind |-> result[p].kind, added |-> result[p].added,
             skipped |-> result[p].skipped, via |-> outcome[p],
             alone |-> alone[p]]]
    /\ alone' = [q \in Procs |->
                    IF q = p THEN \A r \in Others(p) : ~Active(r)
                    ELSE alone[q] /\ ~Active(q)]
    /\ UNCHANGED <<Setting, storage, session, fresh, Pipeline>>

\* The pre-check query (await db.execute).  A failed query is caught and
\* the set is reset to empty.
GnewsPreCheck(p) ==
    /\ pc[p] = "precheck"
    /\ source = "gnews"
    /\ LET pot == PotentialKeys(processed_articles[p]) IN
        IF pot = {}
            THEN UNCHANGED <<existing, trace>>
            ELSE \E ok \in BOOLEAN :
                /\ existing' = [existing EXCEPT ![p] =
                        IF ok THEN pot \cap KeysOf(storage) ELSE {}]
                /\ trace' = [trace EXCEPT ![p] =
                        IF ok THEN @
                        ELSE Append(@, Ev("precheck_failed",
                                          PreCheckLevel(source)))]
    /\ pc' = [pc EXCEPT ![p] = "loop"]
    /\ UNCHANGED <<Setting, storage, idx, processed_articles,
                   articles_to_add, articles_added_count,
                   articles_skipped_count, session, result, outcome, History, Pipeline>>

\* The loop over the batch, then add_all, up to the await of the commit; or
\* the return when nothing was prepared.
GnewsLoopStep(p) ==
    /\ pc[p] = "loop"
    /\ source = "gnews"
    /\ LET r == GnewsLoop(processed_articles[p], existing[p], 1, <<>>, 0) IN
        /\ articles_to_add' = [articles_to_add EXCEPT ![p] = r.toAdd]
        /\ articles_skipped_count' = [articles_skipped_count EXCEPT ![p] = r.skipped]
        /\ IF r.raised
            THEN /\ result' = [result EXCEPT ![p] = Raised]
                 /\ outcome' = [outcome EXCEPT ![p] = "raised"]
                 /\ pc' = [pc EXCEPT ![p] = "done"]
           ELSE IF r.toAdd = <<>>
            THEN /\ result' = [result EXCEPT ![p] = Counts(0, r.skipped)]
                 /\ outcome' = [outcome EXCEPT ![p] = "nothing"]
                 /\ pc' = [pc EXCEPT ![p] = "done"]
           ELSE /\ pc' = [pc EXCEPT ![p] = "commit"]
                /\ UNCHANGED <<result, outcome>>
    /\ UNCHANGED <<Setting, storage, idx, processed_articles, existing,
                   articles_added_count, session, trace, History, Pipeline>>

\* await db.commit(): the rows are flushed and committed together, or the
\* commit raises and nothing of the transaction is stored.
GnewsCommit(p) ==
    /\ pc[p] = "commit"
    /\ source = "gnews"
    /\ trace' = [trace EXCEPT ![p] = Append(@, Ev("commit", "none"))]
    /\ LET rows == MapRows(articles_to_add[p]) IN
       \E dbFails \in BOOLEAN :
        IF dbFails \/ UniqueViolation(storage, rows)
            THEN /\ outcome' = [outcome EXCEPT ![p] =
                        IF dbFails THEN "OtherError" ELSE "IntegrityError"]
                 /\ session' = [session EXCEPT ![p] = "failed"]
                 /\ pc' = [pc EXCEPT ![p] = "rollback"]
                 /\ UNCHANGED <<storage, articles_added_count, result>>
            ELSE /\ storage' = Inserted(storage, rows)
                 /\ articles_added_count' = [articles_added_count EXCEPT ![p] =
                        CommittedCount(articles_to_add[p])]
                 /\ result' = [result EXCEPT ![p] =
                        Counts(CommittedCount(articles_to_add[p]),
                               articles_skipped_count[p])]
                 /\ outcome' = [outcome EXCEPT ![p] = "committed"]
                 /\ pc' = [pc EXCEPT ![p] = "done"]
                 /\ UNCHANGED session
    /\ UNCHANGED <<Setting, idx, processed_articles, existing,
                   articles_to_add, articles_skipped_count, History, Pipeline>>

\* await db.rollback() in the except branch, then the counts and the return.
\* The rollback is not guarded: when it raises, the exception leaves the
\* function.
GnewsRollback(p) ==
    /\ pc[p] = "rollback"
    /\ source = "gnews"
    /\ \E ok \in BOOLEAN :
        IF ok
            THEN LET c == RolledBackCounts(articles_skipped_count[p],
                                           articles_to_add[p]) IN
                 /\ session' = [session EXCEPT ![p] = "ok"]
                 /\ articles_added_count' = [articles_added_count EXCEPT ![p] = c.added]
                 /\ articles_skipped_count' = [articles_skipped_count EXCEPT ![p] = c.skipped]
                 /\ result' = [result EXCEPT ![p] = c]
                 /\ trace' = [trace EXCEPT ![p] =
                        @ \o <<Ev("rollback", "none"),
                               Ev(outcome[p],
                                  CommitFailureLevel(source, outcome[p]))>>]
            ELSE /\ result' = [result EXCEPT ![p] = Raised]
                 /\ trace' = [trace EXCEPT ![p] =
                        Append(@, Ev("rollback", "none"))]
                 /\ UNCHANGED <<session, articles_added_count, articles_skipped_count>>
    /\ pc' = [pc EXCEPT ![p] = "done"]
    /\ UNCHANGED <<Setting, storage, idx, processed_articles, existing,
                   articles_to_add, outcome, History, Pipeline>>

\* ------------------------------------------------- save_processed_articles
\* The pre-check query of the article_id-keyed persist is outside any try:
\* when it fails the exception leaves the function.  Its result is used for
\* logging only.
NewsPreCheck(p) ==
    /\ pc[p] = "precheck"
    /\ source = "news"
    /\ LET pot == PotentialKeys(processed_articles[p]) IN
        IF pot = {}
            THEN /\ pc' = [pc EXCEPT ![p] = "loop"]
                 /\ UNCHANGED <<existing, result, outcome, trace>>
            ELSE \E ok \in BOOLEAN :
                IF ok
                    THEN /\ existing' = [existing EXCEPT ![p] =
                                pot \cap KeysOf(storage)]
                         /\ pc' = [pc EXCEPT ![p] = "loop"]
                         /\ UNCHANGED <<result, outcome, trace>>
                    ELSE /\ result' = [result EXCEPT ![p] = Raised]
                         /\ outcome' = [outcome EXCEPT ![p] = "raised"]
                         /\ trace' = [trace EXCEPT ![p] =
                                Append(@, Ev("precheck_failed",
                                             PreCheckLevel(source)))]
                         /\ pc' = [pc EXCEPT ![p] = "done"]
                         /\ UNCHANGED existing
    /\ UNCHANGED <<Setting, storage, idx, processed_articles,
                   articles_to_add, articles_added_count,
                   articles_skipped_count, session, History, Pipeline>>

\* One pass of the loop body: the item's own existence query (await
\* db.scalar), then validation.  A failed query is caught by the outer
\* handler of the body and the item is skipped.
NewsLoopItem(p) ==
    /\ pc[p] = "loop"
    /\ source = "news"
    /\ idx[p] <= Len(processed_articles[p])
    /\ LET item == processed_articles[p][idx[p]] IN
       \E queryOk \in BOOLEAN :
        IF /\ item.key # NoKey
           /\ queryOk
           /\ item.key \notin KeysOf(storage)
           /\ Valid(item)
            THEN /\ articles_to_add' = [articles_to_add EXCEPT ![p] = Append(@, item)]
                 /\ articles_added_count' = [articles_added_count EXCEPT ![p] = @ + 1]
                 /\ UNCHANGED articles_skipped_count
            ELSE /\ articles_skipped_count' = [articles_skipped_count EXCEPT ![p] = @ + 1]
                 /\ UNCHANGED <<articles_to_add, articles_added_count>>
    /\ idx' = [idx EXCEPT ![p] = @ + 1]
    /\ UNCHANGED <<Setting, storage, pc, processed_articles, existing,
                   session, result, outcome, trace, History, Pipeline>>

\* After the loop: add_all, and the commit only when something was prepared;
\* otherwise the function ends, returning nothing.
NewsLoopEnd(p) ==
    /\ pc[p] = "loop"
    /\ source = "news"
    /\ idx[p] > Len(processed_articles[p])
    /\ IF articles_added_count[p] > 0 /\ articles_to_add[p] # <<>>
        THEN /\ pc' = [pc EXCEPT ![p] = "commit"]
             /\ UNCHANGED <<result, outcome>>
        ELSE /\ pc' = [pc EXCEPT ![p] = "done"]
             /\ result' = [result EXCEPT ![p] = ReturnsNone]
             /\ outcome' = [outcome EXCEPT ![p] = "nothing"]
    /\ UNCHANGED <<Setting, storage, idx, processed_articles, existing,
                   articles_to_add, articles_added_count,
                   articles_skipped_count, session, trace, History, Pipeline>>

\* await db.commit() of the article_id-keyed persist.
NewsCommit(p) ==
    /\ pc[p] = "commit"
    /\ source = "news"
    /\ LET rows == MapRows(articles_to_add[p]) IN
       \E dbFails \in BOOLEAN :
        IF dbFails \/ UniqueViolation(storage, rows)
            THEN LET kind == IF dbFails THEN "OtherError" ELSE "IntegrityError"
                 IN
                 /\ outcome' = [outcome EXCEPT ![p] = kind]
                 /\ trace' = [trace EXCEPT ![p] =
                        @ \o <<Ev("commit", "none"),
                               Ev(kind, CommitFailureLevel(source, kind))>>]
                 /\ session' = [session EXCEPT ![p] = "failed"]
                 /\ pc' = [pc EXCEPT ![p] = "rollback"]
                 /\ UNCHANGED <<storage, result>>
            ELSE /\ storage' = Inserted(storage, rows)
                 /\ result' = [result EXCEPT ![p] = ReturnsNone]
                 /\ outcome' = [outcome EXCEPT ![p] = "committed"]
                 /\ trace' = [trace EXCEPT ![p] = Append(@, Ev("commit", "none"))]
                 /\ pc' = [pc EXCEPT ![p] = "done"]
                 /\ UNCHANGED session
    /\ UNCHANGED <<Setting, idx, processed_articles, existing,
                   articles_to_add, articles_added_count,
                   articles_skipped_count, History, Pipeline>>

\* await db.rollback() of the article_id-keyed persist: the counters are
\* left as the loop set them and nothing is returned.
NewsRollback(p) ==
    /\ pc[p] = "rollback"
    /\ source = "news"
    /\ trace' = [trace EXCEPT ![p] = Append(@, Ev("rollback", "none"))]
    /\ \E ok \in BOOLEAN :
        IF ok
            THEN /\ session' = [session EXCEPT ![p] = "ok"]
                 /\ result' = [result EXCEPT ![p] = ReturnsNone]
            ELSE /\ result' = [result EXCEPT ![p] = Raised]
                 /\ UNCHANGED session
    /\ pc' = [pc EXCEPT ![p] = "done"]
    /\ UNCHANGED <<Setting, storage, idx, processed_articles, existing,
                   articles_to_add, articles_added_count,
                   articles_skipped_count, outcome, History, Pipeline>>

\* The locals of a call or a firing are dropped.
Reset(p) ==
    /\ pc' = [pc EXCEPT ![p] = "idle"]
    /\ session' = [session EXCEPT ![p] = "ok"]
    /\ idx' = [idx EXCEPT ![p] = 1]
    /\ processed_articles' = [processed_articles EXCEPT ![p] = <<>>]
    /\ existing' = [existing EXCEPT ![p] = {}]
    /\ articles_to_add' = [articles_to_add EXCEPT ![p] = <<>>]
    /\ articles_added_count' = [articles_added_count EXCEPT ![p] = 0]
    /\ articles_skipped_count' = [articles_skipped_count EXCEPT ![p] = 0]
    /\ result' = [result EXCEPT ![p] = NoResult]
    /\ outcome' = [outcome EXCEPT ![p] = "none"]
    /\ trace' = [trace EXCEPT ![p] = <<>>]
    /\ prev' = [prev EXCEPT ![p] = NoPrev]
    /\ fresh' = [fresh EXCEPT ![p] = FALSE]
    /\ alone' = [alone EXCEPT ![p] = TRUE]
    /\ articles' = [articles EXCEPT ![p] = <<>>]
    /\ text' = [text EXCEPT ![p] = NONE]
    /\ sumlog' = [sumlog EXCEPT ![p] = <<>>]
    /\ run' = [run EXCEPT ![p] = "none"]
    /\ calls' = [calls EXCEPT ![p] = NoCalls]

\* The caller of a direct persist call is done with it; it rolls a session
\* back that was left failed before using it again.
Finish(p) ==
    /\ pc[p] = "done"
    /\ run[p] = "none"
    /\ Reset(p)
    /\ UNCHANGED <<Setting, storage, Job>>

\* ------------------------------------------------- fetch_page_content
\* Content-Type header values, as token lists; <<>> is a missing header.
ContentTypes ==
    {<<"text", "/", "html", ";", "charset=utf-8">>,
     <<"TEXT", "/", "HTML">>,
     <<"application", "/", "x", "html", "+xml">>,
     <<"application", "/", "pdf">>,
     <<"application", "/", "json">>,
     <<>>}

\* str.lower() on a token.
Lower(tok) ==
    IF tok = "HTML" THEN "html" ELSE IF tok = "TEXT" THEN "text" ELSE tok

\* 'html' in content_type, after .lower()
NamesHtml(ctype) == \E i \in DOMAIN ctype : Lower(ctype[i]) = "html"

\* What client.get(link) gives: a transport failure (httpx.RequestError, a
\* timeout included) or a response with status, content type and text.
Statuses == {200, 204, 404, 500}
PageReplies ==
    {[transport |-> "error", status |-> 0, ctype |-> <<>>, body |-> NONE],
     [transport |-> "timeout", status |-> 0, ctype |-> <<>>, body |-> NONE]}
    \cup {[transport |-> "ok", status |-> st, ctype |-> ct,
           body |-> IF st = 204 THEN "" ELSE "page"] :
            st \in Statuses, ct \in ContentTypes}

\* response.raise_for_status()
IgnoresStatus(status) == FALSE
RaisesForStatus(status) == status >= 400

\* The function from the reply on: its result, None for every failure.  All
\* of it runs inside the try, whose handlers return None.
fetch_page_content(reply) ==
    IF reply.transport # "ok" THEN NONE
    ELSE IF RaisesForStatus(reply.status) THEN NONE
    ELSE IF NamesHtml(reply.ctype) THEN reply.body
    ELSE NONE

\* ------------------------------------------- generate_summary_from_text
\* The texts a caller may pass: None, the empty string, blanks, a text.
Texts == {NONE, "", " ", "text"}

\* if not text_content or not text_content.strip(): return None
RejectsText(t) == t \in {NONE, "", " "}

\* What model.generate_content_async gives: a text, a blank text, or an
\* exception (network, API, timeout, missing credentials).
GenaiReplies == {"text", "blank", "error"}

\* response.text.strip(), or None from the except branch.
PropagatesError(reply) ==
    IF reply = "text" THEN "ai" ELSE IF reply = "blank" THEN "" ELSE "raised"
SummaryOf(reply) ==
    IF reply = "text" THEN "ai" ELSE IF reply = "blank" THEN "" ELSE NONE

\* The function issues its request whatever genai_configured says: the flag
\* is set in summary_helper and read nowhere.
IssuesRequest(configured) == TRUE

\* ------------------------- fetch_headlines_data / fetch_latest_news_data
\* What the news API gives: a transport failure or a response with a status
\* and a body that is a JSON object, other JSON, or not JSON.
ApiReplies ==
    {[transport |-> "error", status |-> 0, body |-> NONE]}
    \cup {[transport |-> "ok", status |-> st, body |-> b] :
            st \in {200, 401, 500}, b \in {"object", "list", "malformed"}}

\* datetime.datetime.now(datetime.timezone.utc), with datetime bound to the
\* class by `from datetime import datetime`: AttributeError, before the try.
RequestTimeRaises(src) == src = "news"

HTTPException(code) == [kind |-> "HTTPException", status_code |-> code]
Escapes(type) == [kind |-> type, status_code |-> 0]
Body(b) == [kind |-> "body", status_code |-> 0]

\* The adapter: the parsed body, or what it raises.  In the GNews adapter a
\* body that is JSON but no object fails at news_data.get inside the try and
\* is turned into the 500 of the last handler; the other adapter logs with
\* news_data.get as well.
fetch_batch(src, reply) ==
    IF RequestTimeRaises(src) THEN Escapes("AttributeError")
    ELSE IF reply.transport # "ok" THEN HTTPException(503)
    ELSE IF reply.status >= 400 THEN HTTPException(reply.status)
    ELSE IF reply.body = "malformed" THEN HTTPException(500)
    ELSE IF reply.body = "list" THEN HTTPException(500)
    ELSE Body(reply.body)

\* ------------------------------- analyze_gnews_data / analyze_news_data
\* An article of the headline source's response.  The GNews article's url
\* is its natural key and its content link at once; the other source has
\* article_id and link.
Candidate(k, t, l, d, w) ==
    [key |-> k, title |-> t, link |-> l, description |-> d, wf |-> w]

Candidates(src) ==
    IF src = "gnews"
        THEN {Candidate(k, t, IF k = NoKey THEN NONE ELSE "l", d, w) :
                k \in {NoKey} \cup Keys, t \in {NONE, "t"},
                d \in {NONE, "desc"}, w \in BOOLEAN}
        ELSE {Candidate(k, "t", l, d, w) :
                k \in {NoKey} \cup Keys, l \in {NONE, "l"},
                d \in {NONE, "desc"}, w \in BOOLEAN}

\* The filter at the head of the loop body: `if not url or not title` in
\* the GNews run, `if not article_id` and `if not link` in the other.
KeepsAll(src, c) == TRUE
OnlyKey(src, c) == c.key # NoKey
Processed(src, c) ==
    IF src = "gnews"
        THEN c.key # NoKey /\ c.title # NONE
        ELSE c.key # NoKey /\ c.link # NONE

\* summary and summary_generated_at after the Summarizer call gave r:
\* "ai" a non-empty text, "empty" the empty string, "none" None, "raise" an
\* exception (caught in the GNews run), "notcalled" no call.  The GNews run
\* starts from the description and replaces it on success only; the other
\* run stores what the Summarizer returned.
AlwaysStamped(src, description, r) ==
    [summary |-> IF r = "ai" THEN "ai" ELSE description,
     summary_generated_at |-> TRUE]
StampsEmpty(src, description, r) ==
    IF r \in {"ai", "empty"}
        THEN [summary |-> IF r = "ai" THEN "ai" ELSE "",
              summary_generated_at |-> TRUE]
    ELSE [summary |-> description, summary_generated_at |-> FALSE]
Summarized(src, description, r) ==
    IF r = "ai" THEN [summary |-> "ai", summary_generated_at |-> TRUE]
    ELSE IF src = "gnews"
        THEN [summary |-> description, summary_generated_at |-> FALSE]
    ELSE [summary |-> IF r = "empty" THEN "" ELSE NONE,
          summary_generated_at |-> FALSE]

\* processed_article_data of candidate c.
DescriptionReplaced(src, c, r) ==
    LET s == Summarized(src, c.description, r) IN
    Item(c.key, c.title, c.link, s.summary, s.summary,
         s.summary_generated_at, c.wf)
ProcessedArticle(src, c, r) ==
    LET s == Summarized(src, c.description, r) IN
    Item(c.key, c.title, c.link, c.description, s.summary,
         s.summary_generated_at, c.wf)

\* processed_articles.append(processed_article_data), the last statement of
\* the loop body.
Deferred(list, a) == list
Appended(list, a) == Append(list, a)

AppendArticle(p, r) ==
    /\ processed_articles' = [processed_articles EXCEPT ![p] =
            Appended(@, ProcessedArticle(source, articles[p][idx[p]], r))]
    /\ sumlog' = [sumlog EXCEPT ![p] = Append(@, r)]
    /\ idx' = [idx EXCEPT ![p] = @ + 1]
    /\ text' = [text EXCEPT ![p] = NONE]
    /\ pc' = [pc EXCEPT ![p] = "article"]
    /\ UNCHANGED run

\* An exception leaves analyze_news_data: the list built so far is lost, and
\* process_and_save_hourly_news catches it, logs and rolls back.
AbortRun(p) ==
    /\ processed_articles' = [processed_articles EXCEPT ![p] = <<>>]
    /\ sumlog' = [sumlog EXCEPT ![p] = <<>>]
    /\ text' = [text EXCEPT ![p] = NONE]
    /\ run' = [run EXCEPT ![p] = "raised"]
    /\ pc' = [pc EXCEPT ![p] = "done"]
    /\ UNCHANGED idx

\* The try/except around fetch, extract and summarize of one article: the
\* GNews run has it, the other run has none.
CatchesNothing(src) == FALSE
CatchesStepErrors(src) == src = "gnews"

PersistLocals == <<existing, articles_to_add, articles_added_count,
                   articles_skipped_count, result, outcome, trace>>

\* ---------------------------------------------------- the scheduled job
\* misfire_grace_time of the job, in seconds.
misfire_grace_time == 600

\* How late the scheduler gets to a due firing: on time, at the end of the
\* grace window, just past it.
Lateness == {0, misfire_grace_time, misfire_grace_time + 1}

\* The scheduler runs a due firing unless it is later than the grace time.
NeverMissed(late) == FALSE
Misfire(late) == late > misfire_grace_time

\* AsyncSessionFactory(): a new session object, distinct from every live one.
Live == ({db[p] : p \in Procs} \cup {request}) \ {0}
AsyncSessionFactory(live) ==
    CHOOSE i \in 1..(Cardinality(live) + 1) : i \notin live

\* The runs of the job that are in flight.
Running == {q \in Procs : pc[q] # "idle"}

\* add_job is given no max_instances, so the job has the scheduler's default
\* of one: a firing is skipped while that many runs of the job are in flight.
Unlimited(running) == FALSE
MaxInstancesReached(running) == Cardinality(running) >= 1

\* The scheduler gets to a due firing of the job.  A firing starts only when
\* no run of the job is in flight; a misfired one is dropped.
StartRun(p) ==
    /\ process.phase = "serving"
    /\ JobId \in process.jobs
    /\ ~MaxInstancesReached(Running)
    /\ \E late \in Lateness :
        IF Misfire(late)
            THEN /\ sched' = [late |-> late, verdict |-> "missed"]
                 /\ UNCHANGED <<pc, run, ended>>
            ELSE /\ sched' = [late |-> late, verdict |-> "run"]
                 /\ pc' = [pc EXCEPT ![p] = "acquire"]
                 /\ run' = [run EXCEPT ![p] = "running"]
                 /\ ended' = "none"
    /\ UNCHANGED <<Setting, storage, idx, processed_articles, session,
                   PersistLocals, History, articles, text, sumlog, calls, db>>

\* await session_gen.__anext__(): the wrapper gets its session, or the
\* exception leaves the wrapper, which has not entered its try yet.
Acquire(p) ==
    /\ pc[p] = "acquire"
    /\ sched' = NoDecision
    /\ \E ok \in BOOLEAN :
        IF ok
            THEN /\ db' = [db EXCEPT ![p] = AsyncSessionFactory(Live)]
                 /\ pc' = [pc EXCEPT ![p] = "headlines"]
                 /\ UNCHANGED <<run, ended>>
            ELSE /\ ended' = "acquire"
                 /\ pc' = [pc EXCEPT ![p] = "idle"]
                 /\ run' = [run EXCEPT ![p] = "none"]
                 /\ UNCHANGED db
    /\ UNCHANGED <<Setting, storage, idx, processed_articles, session,
                   PersistLocals, History, articles, text, sumlog, calls>>

\* The except branch and `if not articles: return []` of the run: r is what
\* the adapter gave, batch the candidates of the body.
IgnoresFailure(r, batch) == batch = <<>>
NoArticles(r, batch) == r.kind # "body" \/ batch = <<>>

\* The news API is up: it answers a request with a 2xx status and a JSON
\* object.
Healthy(reply) ==
    reply.transport = "ok" /\ reply.status < 400 /\ reply.body = "object"

\* await fetch_headlines_data() / fetch_latest_news_data(): the adapter
\* raises, or its body has no articles, or it has a list of candidates.  In
\* the first two cases the run returns [] and the job does not call persist.
\* reply and batch are what the API has to give at that time; calls keeps
\* whether it was up and how many of its candidates had key and link.
Headlines(p) ==
    /\ pc[p] = "headlines"
    /\ \E reply \in ApiReplies, batch \in SubBatches(feed) :
        LET r == fetch_batch(source, reply) IN
        /\ calls' = [calls EXCEPT
                ![p].adapter = @ + 1,
                ![p].got = IF r.kind # "body" THEN "raised"
                           ELSE IF batch = <<>> THEN "empty" ELSE "articles",
                ![p].api = IF Healthy(reply) THEN "ok" ELSE "failed",
                ![p].offered =
                    IF Healthy(reply)
                        THEN Cardinality({i \in DOMAIN batch :
                                /\ batch[i].key # NoKey
                                /\ batch[i].link # NONE})
                        ELSE 0]
        /\ IF NoArticles(r, batch)
            THEN /\ run' = [run EXCEPT ![p] = "empty"]
                 /\ pc' = [pc EXCEPT ![p] = "done"]
                 /\ UNCHANGED articles
            ELSE /\ articles' = [articles EXCEPT ![p] = batch]
                 /\ pc' = [pc EXCEPT ![p] = "article"]
                 /\ UNCHANGED run
    /\ UNCHANGED <<Setting, storage, idx, processed_articles, session,
                   PersistLocals, History, text, sumlog, Job>>

\* The head of the loop body, up to the await of fetch_page_content; after
\* the last article the run returns its list and the job hands it to
\* persist if it is not empty.
\* The for loop over the articles has come to its end.
AfterFirst(i, list) == i > 1
LoopOver(i, list) == i > Len(list)

ArticleHead(p) ==
    /\ pc[p] = "article"
    /\ IF LoopOver(idx[p], articles[p])
        THEN /\ run' = [run EXCEPT ![p] = "returned"]
             /\ IF processed_articles[p] # <<>>
                 THEN /\ Enter(p, processed_articles[p])
                      /\ calls' = [calls EXCEPT ![p].persist = @ + 1]
                 ELSE /\ pc' = [pc EXCEPT ![p] = "done"]
                      /\ UNCHANGED <<idx, processed_articles, PersistLocals,
                                     calls>>
        ELSE /\ IF Processed(source, articles[p][idx[p]])
                 THEN /\ pc' = [pc EXCEPT ![p] = "fetch"]
                      /\ calls' = [calls EXCEPT ![p].fetcher = @ + 1]
                      /\ UNCHANGED idx
                 ELSE /\ idx' = [idx EXCEPT ![p] = @ + 1]
                      /\ UNCHANGED <<pc, calls>>
             /\ UNCHANGED <<run, processed_articles, PersistLocals>>
    /\ UNCHANGED <<Setting, storage, session, History, articles, text,
                   sumlog, Job>>

\* article_text_to_summarize: the extracted text if the page was fetched and
\* yields text; the GNews run summarizes extracted text only, the other run
\* falls back to the description.
TextToSummarize(src, html, extracted, description) ==
    IF html \notin {NONE, ""} /\ extracted THEN "text"
    ELSE IF src = "news" /\ description # NONE THEN "text"
    ELSE NONE

\* What the Summarizer's return value is in the run's log.
Logged(ret) ==
    IF ret = "ai" THEN "ai" ELSE IF ret = "" THEN "empty" ELSE "none"

\* await fetch_page_content(link) returns (or the step raises before the
\* request: the client is built outside the function's try); then
\* extract_text_from_html, and generate_summary_from_text up to its await.
FetchPage(p) ==
    /\ pc[p] = "fetch"
    /\ LET c == articles[p][idx[p]] IN
       \E reply \in PageReplies, extracted \in BOOLEAN, raises \in BOOLEAN :
        LET t == TextToSummarize(source, fetch_page_content(reply), extracted,
                                 c.description)
        IN
        IF raises
            THEN /\ IF CatchesStepErrors(source)
                     THEN AppendArticle(p, "raise")
                     ELSE AbortRun(p)
                 /\ UNCHANGED calls
        ELSE IF t = NONE
            THEN /\ AppendArticle(p, "notcalled")
                 /\ UNCHANGED calls
        ELSE IF RejectsText(t) \/ ~IssuesRequest(genai_configured)
            THEN /\ AppendArticle(p, "none")
                 /\ calls' = [calls EXCEPT ![p].summarizer = @ + 1]
        ELSE /\ text' = [text EXCEPT ![p] = t]
             /\ pc' = [pc EXCEPT ![p] = "summarize"]
             /\ calls' = [calls EXCEPT ![p].summarizer = @ + 1,
                                       ![p].requests = @ + 1]
             /\ UNCHANGED <<idx, processed_articles, sumlog, run>>
    /\ UNCHANGED <<Setting, storage, session, PersistLocals, History,
                   articles, Job>>

\* await model.generate_content_async(...) returns or raises;
\* generate_summary_from_text returns, and the rest of the loop body.
Summarize(p) ==
    /\ pc[p] = "summarize"
    /\ \E reply \in GenaiReplies :
        LET ret == SummaryOf(reply) IN
        IF ret = "raised"
            THEN IF CatchesStepErrors(source)
                    THEN AppendArticle(p, "raise")
                    ELSE AbortRun(p)
            ELSE AppendArticle(p, Logged(ret))
    /\ UNCHANGED <<Setting, storage, session, PersistLocals, History,
                   articles, calls, Job>>

\* process_and_save_hourly_gnews after the run and persist: done, or the
\* except branch that logs and awaits db.rollback().
JobEnd(p) ==
    /\ pc[p] = "done"
    /\ run[p] # "none"
    /\ pc' = [pc EXCEPT ![p] =
            IF result[p].kind = "raised" \/ run[p] = "raised"
                THEN "jobrollback" ELSE "close"]
    /\ UNCHANGED <<Setting, storage, idx, processed_articles, session,
                   PersistLocals, History, articles, text, sumlog, run, calls,
                   Job>>

\* except Exception in the wrapper.
Propagates(caught) == ~caught
CaughtByWrapper(caught) == caught

\* await db.rollback() of the job's except branch.  When it raises too, the
\* exception reaches the wrapper's handler, which logs it.
JobRollback(p) ==
    /\ pc[p] = "jobrollback"
    /\ \E ok \in BOOLEAN :
        IF ok
            THEN /\ session' = [session EXCEPT ![p] = "ok"]
                 /\ ended' = "caught"
            ELSE /\ ended' = IF CaughtByWrapper(TRUE) THEN "caught" ELSE "job"
                 /\ UNCHANGED session
    /\ pc' = [pc EXCEPT ![p] = "close"]
    /\ UNCHANGED <<Setting, storage, idx, processed_articles,
                   PersistLocals, History, articles, text, sumlog, run, calls,
                   db, sched>>

\* The finally of the wrapper runs on every way out of the try.
OnSuccessOnly(how) == how = "none"
ClosesSession(how) == TRUE

\* finally: await session_gen.aclose(), whose own failure is logged.  The
\* generator leaves its two `async with` blocks: the transaction ends and
\* the session is closed.  The firing is over.
Close(p) ==
    /\ pc[p] = "close"
    /\ db' = [db EXCEPT ![p] = IF ClosesSession(ended) THEN 0 ELSE @]
    /\ ended' = IF ended = "none" THEN "normal" ELSE ended
    /\ Reset(p)
    /\ UNCHANGED <<Setting, storage, sched>>

\* An HTTP request gets its own session from the same dependency and gives
\* it back when the response is out.
RequestBegin ==
    /\ process.phase = "serving"
    /\ request = 0
    /\ request' = AsyncSessionFactory(Live)
    /\ UNCHANGED <<source, feed, genai_configured, unit, process, response,
                   storage, pc, idx, processed_articles, session,
                   PersistLocals, History, Pipeline>>

\* The response is out (or the handler raised): the dependency ends the
\* request's transaction and closes its session.
RequestEnd ==
    /\ request # 0
    /\ response.at # "await"
    /\ request' = 0
    /\ response' = NoResponse
    /\ UNCHANGED <<source, feed, genai_configured, unit, process,
                   storage, pc, idx, processed_articles, session,
                   PersistLocals, History, Pipeline>>

\* ------------------------ get_headline_previews / get_gnews_headlines
\* The values a client may send as limit.
Limits == {0, 1, 2, 100, 101}

\* Query(ge=1, le=100): a limit outside is answered 422 by the framework.
LimitOk(limit) == limit >= 1 /\ limit <= 100

RECURSIVE OrderByDesc(_)
\* .order_by(desc(GNewsArticleSummary.published_at))
OrderByDesc(rows) ==
    IF rows = <<>> THEN <<>>
    ELSE LET i == CHOOSE i \in DOMAIN rows :
                    \A j \in DOMAIN rows :
                        rows[j].published_at <= rows[i].published_at
         IN <<rows[i]>>
            \o OrderByDesc(SubSeq(rows, 1, i - 1)
                           \o SubSeq(rows, i + 1, Len(rows)))

\* .limit(limit)
NoLimit(rows, limit) == rows
Limit(rows, limit) ==
    SubSeq(rows, 1, IF limit < Len(rows) THEN limit ELSE Len(rows))

ReadFrame == <<source, feed, genai_configured, unit, process, request,
               storage, pc, idx, processed_articles, session, PersistLocals,
               History, Pipeline>>

\* GET /api/summary/headline-previews or /headlines with a limit, up to the
\* await of db.execute.  Both select from gnews_summaries.
ReadCall ==
    /\ request # 0
    /\ source = "gnews"
    /\ response.at = "idle"
    /\ \E endpoint \in {"headline-previews", "headlines"}, limit \in Limits :
        response' =
            IF LimitOk(limit)
                THEN [NoResponse EXCEPT !.endpoint = endpoint, !.at = "await",
                                        !.limit = limit]
                ELSE [NoResponse EXCEPT !.endpoint = endpoint, !.at = "done",
                                        !.limit = limit, !.status_code = 422]
    /\ UNCHANGED ReadFrame

\* The query's result is in and is returned, or it failed and the handler
\* raises HTTPException(500).
ReadReturn ==
    /\ response.at = "await"
    /\ \E ok \in BOOLEAN :
        response' =
            IF ok
                THEN [response EXCEPT
                        !.at = "done", !.status_code = 200,
                        !.page = Limit(OrderByDesc(storage), response.limit)]
                ELSE [response EXCEPT !.at = "done", !.status_code = 500]
    /\ UNCHANGED ReadFrame

\* ------------------------------------- direct calls of the components
UnitFrame == <<source, feed, genai_configured, request, process, response,
               storage, pc, idx, processed_articles, session, PersistLocals,
               History, Pipeline>>

\* fetch_page_content(link), up to the await of client.get.
FetchCall(p) ==
    /\ unit[p].at = "idle"
    /\ unit' = [unit EXCEPT ![p] = [NoUnit EXCEPT !.fn = "fetch",
                                                  !.at = "await"]]
    /\ UNCHANGED UnitFrame

\* The reply is in: the function returns.
FetchReturn(p) ==
    /\ unit[p].fn = "fetch"
    /\ unit[p].at = "await"
    /\ \E reply \in PageReplies :
        unit' = [unit EXCEPT ![p] =
            [@ EXCEPT !.at = "done",
                      !.reply = reply,
                      !.ret = fetch_page_content(reply)]]
    /\ UNCHANGED UnitFrame

\* generate_summary_from_text(text, title), up to its return for a text it
\* rejects, or to the await of the model's reply.
SummarizeCall(p) ==
    /\ unit[p].at = "idle"
    /\ \E t \in Texts :
        unit' = [unit EXCEPT ![p] =
            IF RejectsText(t) \/ ~IssuesRequest(genai_configured)
                THEN [NoUnit EXCEPT !.fn = "summarize", !.at = "done",
                                    !.text = t]
                ELSE [NoUnit EXCEPT !.fn = "summarize", !.at = "await",
                                    !.text = t, !.requests = 1]]
    /\ UNCHANGED UnitFrame

\* The model's reply is in, or the request failed: the function returns.
SummarizeReturn(p) ==
    /\ unit[p].fn = "summarize"
    /\ unit[p].at = "await"
    /\ \E reply \in GenaiReplies :
        LET ret == SummaryOf(reply) IN
        unit' = [unit EXCEPT ![p] =
            [@ EXCEPT !.at = "done",
                      !.reply = [transport |-> reply],
                      !.ret = IF ret = "raised" THEN NONE ELSE ret,
                      !.raised = IF ret = "raised" THEN "Exception"
                                 ELSE "none"]]
    /\ UNCHANGED UnitFrame

\* fetch_headlines_data() / fetch_latest_news_data(), up to the await of
\* client.get, or to the exception raised before it.
BatchCall(p) ==
    /\ unit[p].at = "idle"
    /\ unit' = [unit EXCEPT ![p] =
        IF RequestTimeRaises(source)
            THEN [NoUnit EXCEPT !.fn = "fetch_batch", !.at = "done",
                                !.raised = "AttributeError"]
            ELSE [NoUnit EXCEPT !.fn = "fetch_batch", !.at = "await",
                                !.requests = 1]]
    /\ UNCHANGED UnitFrame

\* The API's reply is in: the adapter returns the body or raises.
BatchReturn(p) ==
    /\ unit[p].fn = "fetch_batch"
    /\ unit[p].at = "await"
    /\ \E reply \in ApiReplies :
        LET r == fetch_batch(source, reply) IN
        unit' = [unit EXCEPT ![p] =
            [@ EXCEPT !.at = "done",
                      !.reply = reply,
                      !.ret = IF r.kind = "body" THEN "body" ELSE NONE,
                      !.raised = IF r.kind = "body" THEN "none" ELSE r.kind,
                      !.status_code = r.status_code]]
    /\ UNCHANGED UnitFrame

\* The caller takes the result.
UnitDone(p) ==
    /\ unit[p].at = "done"
    /\ unit' = [unit EXCEPT ![p] = NoUnit]
    /\ UNCHANGED UnitFrame

Unit(p) ==
    \/ FetchCall(p)
    \/ FetchReturn(p)
    \/ SummarizeCall(p)
    \/ SummarizeReturn(p)
    \/ BatchCall(p)
    \/ BatchReturn(p)
    \/ UnitDone(p)

InitUnit ==
    /\ genai_configured \in BOOLEAN
    /\ process = Serving(genai_configured)
    /\ source \in Sources
    /\ feed = <<>>
    /\ InitCallers

NextUnit == \E p \in Procs : Unit(p)

SpecUnit == InitUnit /\ [][NextUnit]_vars

\* ------------------------------------------------ extract_text_from_html
\* A parsed page is the sequence of its elements in document order.  Each has
\* a tag, a role attribute, a string of its own (none, whitespace only, or a
\* word, which is told apart from the other words by the element's position)
\* and its parent's position, 0 for the top of the document.  The empty
\* sequence is the empty input.
MaxNodes == 3

Tags == {"article", "main", "div", "p", "script"}
Strings == {"none", "blank", "word"}
Elements == [tag : Tags, role : {"main", NONE}, string : Strings,
             parent : 0..(MaxNodes - 1)]

RECURSIVE Ancestors(_, _)
Ancestors(doc, i) ==
    IF doc[i].parent = 0 THEN {}
    ELSE {doc[i].parent} \cup Ancestors(doc, doc[i].parent)

\* Document order: an element's parent is the element before it or one of
\* that element's ancestors; a script element has no element inside.
IsDocument(doc) ==
    \A i \in 1..Len(doc) :
        /\ doc[i].parent < i
        /\ doc[i].parent # 0 =>
            /\ doc[i].parent \in {i - 1} \cup Ancestors(doc, i - 1)
            /\ doc[doc[i].parent].tag # "script"

Documents ==
    UNION {{doc \in [1..n -> Elements] : IsDocument(doc)} : n \in 0..MaxNodes}

\* for script_or_style in soup(["script", "style"]): decompose() removes
\* these elements with all they contain; Kept is what remains.
Kept(doc) ==
    {i \in 1..Len(doc) :
        \A a \in {i} \cup Ancestors(doc, i) : doc[a].tag # "script"}

\* soup.find(...): the first element in document order that matches, 0 for
\* None.
First(found) ==
    IF found = {} THEN 0 ELSE CHOOSE i \in found : \A j \in found : i <= j

find(doc, tag) == First({i \in Kept(doc) : doc[i].tag = tag})
find_role(doc, role) == First({i \in Kept(doc) : doc[i].role = role})

\* soup.find('article') or soup.find('main') or soup.find(role='main').
WholeDocument(doc) == 0
main_content(doc) ==
    IF find(doc, "article") # 0 THEN find(doc, "article")
    ELSE IF find(doc, "main") # 0 THEN find(doc, "main")
    ELSE find_role(doc, "main")

\* main_content.find_all('p') if main_content else soup.find_all('p'): the
\* paragraphs below the container, the container itself not among them.
find_all_p(doc, container) ==
    {i \in Kept(doc) :
        /\ doc[i].tag = "p"
        /\ container # 0 => container \in Ancestors(doc, i)}

\* para.get_text(strip=True): the strings of the paragraph and of what it
\* contains, in document order, each stripped and the empty ones left out.
RECURSIVE get_text(_, _, _)
get_text(doc, para, i) ==
    IF i > Len(doc) THEN <<>>
    ELSE (IF /\ i \in Kept(doc)
             /\ (i = para \/ para \in Ancestors(doc, i))
             /\ doc[i].string = "word"
            THEN <<i>> ELSE <<>>) \o get_text(doc, para, i + 1)

\* "\n".join(part for part in text_parts if part): the lines of the result.
RECURSIVE join(_, _, _)
join(doc, paragraphs, i) ==
    IF i > Len(doc) THEN <<>>
    ELSE (IF i \in paragraphs /\ get_text(doc, i, i) # <<>>
            THEN <<get_text(doc, i, i)>> ELSE <<>>)
         \o join(doc, paragraphs, i + 1)

\* extract_text_from_html(html_content): the text as its lines, <<>> for "".
extract_text_from_html(doc) ==
    IF doc = <<>> THEN <<>>
    ELSE join(doc, find_all_p(doc, main_content(doc)), 1)

\* A direct call of extract_text_from_html, which has no await: call and
\* return are one step, and the caller takes the result before another call
\* is made.
ExtractCall(p) ==
    /\ \A q \in Procs : unit[q].at = "idle"
    /\ \E doc \in Documents :
        unit' = [unit EXCEPT ![p] =
            [NoUnit EXCEPT !.fn = "extract", !.at = "done", !.html = doc,
                           !.ret = extract_text_from_html(doc)]]
    /\ UNCHANGED UnitFrame

InitExtract ==
    /\ genai_configured = TRUE
    /\ process = Serving(TRUE)
    /\ source = "gnews"
    /\ feed = <<>>
    /\ InitCallers

NextExtract == \E p \in Procs : ExtractCall(p) \/ UnitDone(p)

SpecExtract == InitExtract /\ [][NextExtract]_vars

Run(p) ==
    \/ StartRun(p)
    \/ Acquire(p)
    \/ Headlines(p)
    \/ ArticleHead(p)
    \/ FetchPage(p)
    \/ Summarize(p)
    \/ JobEnd(p)
    \/ JobRollback(p)
    \/ Close(p)

GnewsPersist(p) ==
    \/ GnewsPreCheck(p)
    \/ GnewsLoopStep(p)
    \/ GnewsCommit(p)
    \/ GnewsRollback(p)

NewsPersist(p) ==
    \/ NewsPreCheck(p)
    \/ NewsLoopItem(p)
    \/ NewsLoopEnd(p)
    \/ NewsCommit(p)
    \/ NewsRollback(p)

Next ==
    \E p \in Procs :
        \/ Call(p)
        \/ CallAgain(p)
        \/ GnewsPersist(p)
        \/ NewsPersist(p)
        \/ Finish(p)

Spec == Init /\ [][Next]_vars

\* Direct calls of the URL-keyed persist with batches taken from a list of
\* MaxBatch + 1 well-formed items, which repeats at least one url.
InitRepeat ==
    /\ genai_configured = TRUE
    /\ process = Serving(TRUE)
    /\ source = "gnews"
    /\ feed \in [1..(MaxBatch + 1) ->
                    {Item(k, "t", "l", "desc", "desc", FALSE, TRUE) :
                        k \in Keys}]
    /\ \E i, j \in DOMAIN feed : i # j /\ feed[i].key = feed[j].key
    /\ InitCallers

NextRepeat ==
    \E p \in Procs :
        \/ Call(p)
        \/ GnewsPersist(p)
        \/ Finish(p)

SpecRepeat == InitRepeat /\ [][NextRepeat]_vars

\* The scheduled job: pipeline run, then persist, one firing at a time.  The
\* article_id-keyed run never gets candidates, so only the URL-keyed persist
\* is ever entered.
InitRun ==
    /\ genai_configured \in BOOLEAN
    /\ process = Serving(genai_configured)
    /\ source \in Sources
    /\ feed \in BatchesOf(Candidates(source))
    /\ InitCallers

NextRun == \E p \in Procs : Run(p) \/ GnewsPersist(p)

SpecRun == InitRun /\ [][NextRun]_vars

\* The job beside the HTTP requests the process serves.
NextJob ==
    \/ NextRun
    \/ RequestBegin
    \/ RequestEnd

SpecJob == InitRun /\ [][NextJob]_vars

\* The read endpoints beside the job, for well-formed articles.
ReadCandidates == {Candidate(k, "t", "l", "desc", TRUE) : k \in Keys}

InitRead ==
    /\ genai_configured = TRUE
    /\ process = Serving(TRUE)
    /\ source = "gnews"
    /\ feed \in BatchesOf(ReadCandidates)
    /\ InitCallers

NextRead ==
    \/ NextJob
    \/ ReadCall
    \/ ReadReturn

SpecRead == InitRead /\ [][NextRead]_vars

StartFrame == <<source, feed, request, unit, response, storage, pc, idx,
                processed_articles, session, PersistLocals, History,
                Pipeline>>

\* uvicorn imports app.main, which imports config, database and
\* summary_helper: the import raises and the process is not started, or the
\* module globals are set.
Import ==
    /\ process.phase = "importing"
    /\ IF ImportRaises(process.env)
        THEN /\ process' = [process EXCEPT !.phase = "refused"]
             /\ UNCHANGED genai_configured
        ELSE /\ process' = [process EXCEPT !.phase = "imported"]
             /\ genai_configured' = GenaiConfigured(process.env)
    /\ UNCHANGED StartFrame

\* scheduler.add_job(gnews_hourly_job_wrapper, id=..., replace_existing=True):
\* the job store is keyed by id, and a job of the same id is replaced.
add_job(jobs, id) == (jobs \ {id}) \cup {id}

\* lifespan: add_jobs_to_scheduler and sum_scheduler.start(), both inside a
\* try whose handler logs; then the application serves.  The job is not
\* registered when the timezone is unknown or add_job raises.
Lifespan ==
    /\ process.phase = "imported"
    /\ \E added \in BOOLEAN :
        process' = [process EXCEPT !.phase = "serving",
                                   !.jobs = IF added THEN add_job(@, JobId)
                                            ELSE @]
    /\ UNCHANGED <<genai_configured, StartFrame>>

\* A process from its start on, with the firings and requests it serves.
InitStart ==
    /\ genai_configured = FALSE
    /\ process \in [phase : {"importing"}, env : Envs, jobs : {{}}]
    /\ source = "gnews"
    /\ feed = <<Candidate(1, "t", "l", "desc", TRUE)>>
    /\ InitCallers

NextStart ==
    \/ Import
    \/ Lifespan
    \/ NextJob

SpecStart == InitStart /\ [][NextStart]_vars

\* ================================================================ claims

\* C1: in every reachable state, however persist calls of several callers
\* interleave and overlap, the table holds no two rows with the same natural
\* key (url of gnews_summaries, article_id of processed_articles).
C1_UniqueKeys ==
    \A i, j \in DOMAIN storage : i # j => storage[i].key # storage[j].key

\* A race happened: p queued a key that the pre-check did not find, another
\* caller committed it first, and p's commit was rejected.
C1_Witness ==
    \E p \in Procs, q \in Procs :
        /\ p # q
        /\ outcome[p] = "IntegrityError"
        /\ outcome[q] = "committed"
        /\ ~alone[p]
        /\ \A i, j \in DOMAIN articles_to_add[p] :
            i # j => articles_to_add[p][i].key # articles_to_add[p][j].key
        /\ \E i \in DOMAIN articles_to_add[p], j \in DOMAIN articles_to_add[q] :
            articles_to_add[p][i].key = articles_to_add[q][j].key

\* C2: idempotence of the URL-keyed persist.  For a batch of N well-formed
\* records with pairwise distinct keys, none stored, and no concurrent
\* writer, the first call (whose commit the database does not fail) returns
\* (N, 0), a second call with the identical batch returns (0, N), and no
\* step of the second call changes the table.
SecondCall(p) ==
    /\ source = "gnews"
    /\ prev[p].kind = "counts"
    /\ prev[p].via # "OtherError"
    /\ fresh[p]
    /\ prev[p].alone
    /\ alone[p]

C2_Counts ==
    \A p \in Procs :
        SecondCall(p) =>
            LET n == Len(processed_articles[p]) IN
            /\ prev[p].added = n /\ prev[p].skipped = 0
            /\ (pc[p] = "done" /\ result[p].kind = "counts")
                => result[p] = Counts(0, n)

C2_StorageUnchanged ==
    \A p \in Procs : SecondCall(p) => storage' = storage

C2_Idempotent == []C2_Counts /\ [][C2_StorageUnchanged]_vars

C2_Witness ==
    \E p \in Procs :
        /\ SecondCall(p)
        /\ pc[p] = "done"
        /\ Len(processed_articles[p]) = MaxBatch
        /\ result[p] = Counts(0, MaxBatch)

\* C3: when the commit of persist fails with a uniqueness violation and the
\* rollback has completed, the call returns added_count = 0 and counts every
\* item of the batch as skipped (the P pending ones included), and the
\* session is usable again.
C3_RollbackCounts ==
    \A p \in Procs :
        (pc[p] = "done" /\ outcome[p] = "IntegrityError"
            /\ result[p].kind # "raised")
        => /\ result[p] = Counts(0, Len(processed_articles[p]))
           /\ session[p] = "ok"

\* C9: persist never raises to its caller.
C9_NeverRaises ==
    \A p \in Procs : result[p].kind # "raised"

\* C10: each persist implementation returns the pair (added_count,
\* skipped_count), and added_count is the number of rows the call committed
\* (0 when the commit was rolled back).
C10_ReturnsCommitted ==
    \A p \in Procs :
        (pc[p] = "done" /\ result[p].kind # "raised")
        => /\ result[p].kind = "counts"
           /\ result[p].added =
                IF outcome[p] = "committed" THEN Len(articles_to_add[p]) ELSE 0

\* --------------------------------------------------- claims on the runs
Passes(c) == c.key # NoKey /\ c.link # NONE

CountPassing(list) ==
    Cardinality({i \in DOMAIN list : Passes(list[i])})

\* C4: for every candidate that passes the filter of its run, a failure or
\* an exception of its fetch, extract or summarize step neither removes it
\* from the output nor keeps a later candidate from being processed: a run
\* that has ended has one output article per such candidate.
C4_Contained ==
    \A p \in Procs :
        run[p] \in {"returned", "raised"} =>
            Len(processed_articles[p]) =
                Cardinality({i \in DOMAIN articles[p] :
                                Processed(source, articles[p][i])})

\* A step of the first article raised, and the run went on to the last one.
C4_Witness ==
    \E p \in Procs :
        /\ run[p] = "returned"
        /\ Len(articles[p]) = MaxBatch
        /\ Len(processed_articles[p]) = MaxBatch
        /\ sumlog[p][1] = "raise"
        /\ sumlog[p][MaxBatch] = "ai"

\* C5: summary_generated_at of a ProcessedArticle is set exactly when the
\* Summarizer returned a text for that article in this run, and then the
\* summary is that text, not the description and not absent.
C5_StampIffSummarized ==
    \A p \in Procs :
        Len(sumlog[p]) = Len(processed_articles[p]) =>
            \A i \in DOMAIN processed_articles[p] :
                LET a == processed_articles[p][i] IN
                /\ a.summary_generated_at <=> sumlog[p][i] = "ai"
                /\ a.summary_generated_at => a.summary = "ai"

C5_Witness ==
    \E p \in Procs : \E i, j \in DOMAIN sumlog[p] :
        /\ Len(sumlog[p]) = Len(processed_articles[p])
        /\ sumlog[p][i] = "ai"
        /\ processed_articles[p][i].summary_generated_at
        /\ sumlog[p][j] \in {"none", "empty"}
        /\ processed_articles[p][j].description = "desc"
        /\ ~processed_articles[p][j].summary_generated_at

\* C6: after any sequence of runs, every stored row whose
\* summary_generated_at is set has the Summarizer's text as its summary,
\* never the description.
C6_StampedRowsSummarized ==
    \A i \in DOMAIN storage :
        storage[i].summary_generated_at => storage[i].summary = "ai"

C6_Witness ==
    \E i, j \in DOMAIN storage :
        /\ storage[i].summary_generated_at
        /\ storage[i].summary = "ai"
        /\ ~storage[j].summary_generated_at
        /\ storage[j].summary = "desc"

\* C7: a candidate without natural key or without content link never gets
\* into the output of a run, so the counts persist returns for the run's
\* output cover at most the candidates that have both.
C7_Excluded ==
    \A p \in Procs :
        /\ \A i \in DOMAIN processed_articles[p] :
            Passes(processed_articles[p][i])
        /\ (run[p] = "returned" /\ pc[p] = "done" /\ result[p].kind = "counts")
            => result[p].added + result[p].skipped <= CountPassing(articles[p])

C7_Witness ==
    \E p \in Procs :
        /\ run[p] = "returned"
        /\ pc[p] = "done"
        /\ result[p] = Counts(1, 0)
        /\ Len(articles[p]) = MaxBatch
        /\ \E i \in DOMAIN articles[p] : ~Passes(articles[p][i])

\* The candidate fields of an output article.
RECURSIVE Origins(_)
Origins(items) ==
    IF items = <<>> THEN <<>>
    ELSE <<Candidate(Head(items).key, Head(items).title, Head(items).link,
                     Head(items).description, Head(items).wf)>>
         \o Origins(Tail(items))

\* C8 as stated: the output of a run has exactly one article, in batch
\* order, for every candidate with natural key and content link.
C8_OnePerKeyAndLink ==
    \A p \in Procs :
        run[p] = "returned" =>
            Origins(processed_articles[p]) = SelectSeq(articles[p], Passes)

\* C8 amended: the output of a run that returns has exactly one article, in
\* batch order, for every candidate with natural key and content link that,
\* in the URL-keyed run, also has a title.
PassesWithTitle(c) ==
    Passes(c) /\ (source = "gnews" => c.title # NONE)

C8_OnePerProcessed ==
    \A p \in Procs :
        run[p] = "returned" =>
            Origins(processed_articles[p])
                = SelectSeq(articles[p], PassesWithTitle)

C8_Witness ==
    \E p \in Procs :
        /\ run[p] = "returned"
        /\ source = "gnews"
        /\ Len(articles[p]) = MaxBatch
        /\ Len(processed_articles[p]) = MaxBatch - 1
        /\ \E i \in DOMAIN articles[p] :
            Passes(articles[p][i]) /\ articles[p][i].title = NONE

\* ------------------------------------------ claims on the Summarizer
\* The summary is the description (absent when there is none) and no
\* timestamp is set.
FallsBack(a) ==
    a.summary = a.description /\ ~a.summary_generated_at

\* C11: whenever summarization does not succeed for an article, its summary
\* is the candidate's description where there is one, absent otherwise, and
\* summary_generated_at is absent; in a run with an unconfigured Summarizer
\* this holds for every ProcessedArticle.
C11_FallbackSummary ==
    \A p \in Procs :
        Len(sumlog[p]) = Len(processed_articles[p]) =>
            \A i \in DOMAIN processed_articles[p] :
                (sumlog[p][i] # "ai" \/ ~genai_configured)
                    => FallsBack(processed_articles[p][i])

\* C12: summarize() returns absent without a request to the generative
\* model when the text is empty or blank or when the AI backend was not
\* configured at startup.
C12_RejectsWithoutRequest ==
    \A p \in Procs :
        (unit[p].fn = "summarize"
            /\ (RejectsText(unit[p].text) \/ ~genai_configured))
        => /\ unit[p].requests = 0
           /\ unit[p].at = "done"
           /\ unit[p].ret = NONE

\* C13: summarize() issues at most one request per call and never raises:
\* a failed request gives the value absent.
C13_OneRequestNeverRaises ==
    \A p \in Procs :
        unit[p].fn = "summarize" =>
            /\ unit[p].requests <= 1
            /\ unit[p].raised = "none"
            /\ (unit[p].at = "done" /\ unit[p].reply = [transport |-> "error"])
                => unit[p].ret = NONE

C13_Witness ==
    \E p \in Procs :
        /\ unit[p].fn = "summarize"
        /\ unit[p].at = "done"
        /\ unit[p].requests = 1
        /\ unit[p].reply = [transport |-> "error"]
        /\ unit[p].ret = NONE

\* ---------------------------------------------- claims on the Fetcher
\* The header values that stand for an HTML document.
HtmlTypes ==
    {<<"text", "/", "html", ";", "charset=utf-8">>,
     <<"TEXT", "/", "HTML">>,
     <<"application", "/", "x", "html", "+xml">>}

IsPage(reply) ==
    /\ reply.transport = "ok"
    /\ reply.status \in 200..299
    /\ reply.ctype \in HtmlTypes

\* C14: fetch(url) returns the response text only when the status is 2xx
\* and the content type is HTML; for any other content type, any HTTP error
\* status, any transport error or timeout it returns absent, and it never
\* raises.
C14_HtmlOrAbsent ==
    \A p \in Procs :
        (unit[p].fn = "fetch" /\ unit[p].at = "done") =>
            /\ unit[p].raised = "none"
            /\ unit[p].ret =
                IF IsPage(unit[p].reply) THEN unit[p].reply.body ELSE NONE

\* HTTP 200 with application/pdf gave absent.
C14_Witness ==
    \E p \in Procs :
        /\ unit[p].fn = "fetch"
        /\ unit[p].at = "done"
        /\ unit[p].reply.transport = "ok"
        /\ unit[p].reply.status = 200
        /\ unit[p].reply.ctype = <<"application", "/", "pdf">>
        /\ unit[p].ret = NONE

\* ------------------------------------------------ claims on the firing
\* The adapter is called once, and a run it gave nothing to has called
\* nothing else.
C15_NoOp ==
    \A p \in Procs :
        /\ calls[p].adapter <= 1
        /\ run[p] \in {"empty", "returned", "raised"} => calls[p].adapter = 1
        /\ calls[p].got \in {"raised", "empty"} =>
            /\ run[p] = "empty"
            /\ processed_articles[p] = <<>>
            /\ calls[p].fetcher = 0
            /\ calls[p].summarizer = 0
            /\ calls[p].persist = 0

\* No step of a firing whose adapter call gave nothing changes the table.
C15_StorageKept ==
    \A p \in Procs :
        (calls[p].got \in {"raised", "empty"}
            \/ calls'[p].got \in {"raised", "empty"})
        => storage' = storage

\* C15: the run calls the headline adapter exactly once; if that call raises
\* or yields no candidates, the run returns the empty list without calling
\* Fetcher, Extractor or Summarizer, the job does not call persist, and no
\* step of that firing changes storage.
C15_EmptyRunIsNoOp == []C15_NoOp /\ [][C15_StorageKept]_vars

\* The adapter raised in a firing that follows one which stored rows.
C15_Witness ==
    \E p \in Procs :
        /\ calls[p].got = "raised"
        /\ calls[p].adapter = 1
        /\ pc[p] = "close"
        /\ storage # <<>>

\* C16: fetch_batch() returns the parsed body or raises a structured error:
\* an upstream error status s gives an error carrying s, a transport error
\* gives 503, a malformed JSON body gives 500; nothing else leaves the
\* adapter.
C16_StructuredErrors ==
    \A p \in Procs :
        (unit[p].fn = "fetch_batch" /\ unit[p].at = "done") =>
            \/ unit[p].raised = "none" /\ unit[p].ret = "body"
            \/ /\ unit[p].raised = "HTTPException"
               /\ unit[p].reply.transport # "ok" => unit[p].status_code = 503
               /\ (unit[p].reply.transport = "ok"
                    /\ unit[p].reply.status >= 400)
                    => unit[p].status_code = unit[p].reply.status
               /\ (unit[p].reply.transport = "ok"
                    /\ unit[p].reply.status < 400
                    /\ unit[p].reply.body = "malformed")
                    => unit[p].status_code = 500

\* C17: every firing holds a session of its own, distinct from the session
\* of any other firing and of any HTTP request, and the session is released
\* before the firing ends, however the run and persist went.
C17_OwnSessionReleased ==
    \A p \in Procs :
        /\ pc[p] \in {"idle", "acquire"} => db[p] = 0
        /\ (pc[p] \notin {"idle", "acquire"} /\ run[p] # "none") =>
            /\ db[p] # 0
            /\ db[p] # request
            /\ \A q \in Others(p) : db[q] # db[p]

\* A firing whose persist raised has ended while a request holds a session.
C17_Witness ==
    /\ ended = "caught"
    /\ request # 0
    /\ \A p \in Procs : pc[p] = "idle" /\ db[p] = 0

\* C18: an exception raised in the run or in persist never leaves the job
\* wrapper: the firing ends, and the next firing can start, from the same
\* local state as any other.
C18_NeverEscapes ==
    /\ ended # "job"
    /\ \A p \in Procs :
        pc[p] = "idle" =>
            /\ session[p] = "ok"
            /\ processed_articles[p] = <<>>
            /\ articles[p] = <<>>
            /\ result[p] = NoResult
            /\ run[p] = "none"
            /\ calls[p] = NoCalls
    /\ (\A p \in Procs : pc[p] = "idle") =>
            \A p \in Procs : ENABLED StartRun(p)

\* A firing in which persist raised and the job's rollback raised as well
\* has ended.
C18_Witness ==
    /\ ended = "caught"
    /\ \A p \in Procs : pc[p] = "idle"
    /\ \E p \in Procs : session[p] = "ok" /\ db[p] = 0 /\ ENABLED StartRun(p)

\* C19: a firing that comes late is run when it is no later than the grace
\* time of 600 seconds and dropped otherwise; a dropped firing starts no run
\* and leaves nothing queued.
C19_Misfire ==
    /\ sched.verdict = "run" =>
        /\ sched.late <= 600
        /\ \E p \in Procs : pc[p] = "acquire"
    /\ sched.verdict = "missed" =>
        /\ sched.late > 600
        /\ \A p \in Procs : pc[p] = "idle" /\ run[p] = "none"

\* A firing exactly 600 seconds late was run.
C19_Witness ==
    /\ sched.verdict = "run"
    /\ sched.late = 600
    /\ storage # <<>>

\* C20: the pipeline is insert-only: no step of persist deletes a stored row
\* or changes a field of one; the stored rows only grow.
C20_InsertOnly ==
    [][/\ Len(storage') >= Len(storage)
       /\ SubSeq(storage', 1, Len(storage)) = storage]_vars

\* Rows of two commits are stored.
C20_Witness ==
    /\ Len(storage) = NumKeys
    /\ \E p \in Procs : outcome[p] = "committed" /\ Len(articles_to_add[p]) = 1

\* ------------------------------------------- claims on retry and startup
\* The item can be stored: it has a key and a title and its fields coerce.
WellFormed(item) == item.key # NoKey /\ item.title # NONE /\ Valid(item)

Happened(p, what) == \E i \in DOMAIN trace[p] : trace[p][i].what = what

\* The second call on a batch whose first commit hit the uniqueness
\* constraint has returned; no other caller was active during it and none
\* of its database calls failed for another reason.
RetriedAlone(p) ==
    /\ source = "gnews"
    /\ prev[p].kind = "counts"
    /\ prev[p].via = "IntegrityError"
    /\ alone[p]
    /\ pc[p] = "done"
    /\ result[p].kind = "counts"
    /\ ~Happened(p, "precheck_failed")
    /\ ~Happened(p, "OtherError")

\* C21: after a uniqueness violation at commit rolled a batch back, a later
\* run over the same articles with no concurrent writer leaves every
\* well-formed article of the batch in storage (the missing ones are
\* inserted), so that with repeated firings every well-formed article the
\* source keeps returning gets stored.
C21_RetryStores ==
    \A p \in Procs :
        RetriedAlone(p) =>
            \A i \in DOMAIN processed_articles[p] :
                WellFormed(processed_articles[p][i]) =>
                    processed_articles[p][i].key \in KeysOf(storage)

\* The credentials of the database the environment selects are not all set.
DbCredentialsMissing(env) ==
    IF env.environment = "local" THEN ~env.database_url
    ELSE ~env.db_credentials

Up == process.phase \in {"imported", "serving"}

\* C22: a process whose AI API key or database credentials are missing does
\* not start, and no firing runs and no request is served in a process
\* whose Summarizer is disabled.
C22_FatalAtStartup ==
    /\ (~process.env.ai_key \/ DbCredentialsMissing(process.env)) => ~Up
    /\ ~genai_configured =>
        /\ \A p \in Procs : pc[p] = "idle"
        /\ request = 0

\* --------------------------------------------- claims on the two sources
RunOver(p) == run[p] \in {"empty", "returned", "raised"}

\* C23: with either source, a run for which the news API is up and offers
\* at least one candidate with key and link returns a non-empty list that
\* has one ProcessedArticle per such candidate.
C23_EitherSource ==
    \A p \in Procs :
        (RunOver(p) /\ calls[p].api = "ok" /\ calls[p].offered > 0) =>
            /\ run[p] = "returned"
            /\ Len(sumlog[p]) = calls[p].offered

\* ------------------------------------------ claims on the read endpoints
Served == response.at = "done" /\ response.status_code = 200

\* The page has at most limit rows, all of them stored, newest first.
C24_Page ==
    Served =>
        /\ response.limit \in 1..100
        /\ Len(response.page) <= response.limit
        /\ \A i \in DOMAIN response.page :
            \E j \in DOMAIN storage : storage[j] = response.page[i]
        /\ \A i, j \in DOMAIN response.page :
            i < j => response.page[i].published_at
                        >= response.page[j].published_at

\* No step of a read changes the table.
C24_ReadOnly == response' # response => storage' = storage

\* C24: the headline read endpoints are pure reads: a call with a limit in
\* 1..100 returns at most limit stored records, newest publication time
\* first, and no step of it changes a stored record, a run of the job being
\* in flight or not.
C24_PureReads == []C24_Page /\ [][C24_ReadOnly]_vars

\* One of two stored rows was asked for while a firing was in flight: the
\* page has the newer one, which was stored last.
C24_Witness ==
    /\ Served
    /\ response.limit = 1
    /\ Len(storage) = 2
    /\ response.page = <<storage[2]>>
    /\ storage[2].published_at > storage[1].published_at
    /\ \E p \in Procs : pc[p] \in {"fetch", "summarize", "commit"}

\* ------------------------------------------- claims on the text source
\* C25: when the page of a processed candidate gives no text, the Summarizer
\* is called with the candidate's description; it is skipped only for a
\* candidate that has neither extracted text nor a description.
C25_DescriptionFallback ==
    \A p \in Procs :
        Len(sumlog[p]) = Len(processed_articles[p]) =>
            \A i \in DOMAIN sumlog[p] :
                sumlog[p][i] = "notcalled"
                    => processed_articles[p][i].description = NONE

\* ------------------------------------------------ claims on the commit
Times(p, what) ==
    Cardinality({i \in DOMAIN trace[p] : trace[p][i].what = what})

\* A call awaits db.commit() at most once, and a call whose commit went
\* through has all its surviving records in the table.
C26_CommitOnce ==
    \A p \in Procs :
        /\ Times(p, "commit") <= 1
        /\ outcome[p] = "committed" =>
            /\ Times(p, "commit") = 1
            /\ \A i \in DOMAIN articles_to_add[p] :
                articles_to_add[p][i].key \in KeysOf(storage)

\* The table changes only by the commit of one call, which appends one row
\* for each of the call's surviving records, all in the same step.
C26_AllInOneStep ==
    storage' # storage =>
        \E p \in Procs :
            /\ pc[p] = "commit"
            /\ outcome'[p] = "committed"
            /\ Len(storage') = Len(storage) + Len(articles_to_add[p])
            /\ SubSeq(storage', 1, Len(storage)) = storage
            /\ \A i \in DOMAIN articles_to_add[p] :
                storage'[Len(storage) + i].key = articles_to_add[p][i].key

\* A failed commit leaves the table as it was.
C26_NoneOnFailure ==
    \A p \in Procs :
        (pc[p] = "commit" /\ outcome'[p] \in {"IntegrityError", "OtherError"})
            => storage' = storage

\* C26: persist commits at most once per call and writes the surviving
\* records of a batch atomically: all of them in one step or none, so that
\* no state a reader can observe has a proper non-empty part of them.
C26_AtomicBatch ==
    []C26_CommitOnce /\ [][C26_AllInOneStep /\ C26_NoneOnFailure]_vars

\* One caller's two records are stored, another's two were rolled back.
C26_Witness ==
    \E p, q \in Procs :
        /\ outcome[p] = "committed"
        /\ Len(articles_to_add[p]) = MaxBatch
        /\ Len(storage) = MaxBatch
        /\ pc[q] = "done"
        /\ outcome[q] \in {"IntegrityError", "OtherError"}
        /\ Len(articles_to_add[q]) = MaxBatch
        /\ Times(q, "commit") = 1

\* ---------------------------------------------- claims on the pre-check
\* The item has a usable key and valid fields.
Usable(item) == item.key # NoKey /\ Valid(item)

\* The step in which the pre-check query fails takes the call on to its
\* loop, with no key taken as stored.
C27_GoesOn ==
    \A p \in Procs :
        (pc[p] = "precheck" /\ trace'[p] # trace[p]) =>
            /\ pc'[p] = "loop"
            /\ existing'[p] = {}
            /\ result'[p].kind # "raised"

\* After a failed pre-check, a call whose loop has ended has queued every
\* usable item of the batch.
C27_AllQueued ==
    \A p \in Procs :
        (Happened(p, "precheck_failed")
            /\ pc[p] \in {"commit", "rollback", "done"}
            /\ outcome[p] # "raised")
        => articles_to_add[p] = SelectSeq(processed_articles[p], Usable)

\* C27: if the pre-check query of persist fails, the call continues as if
\* no key of the batch were stored: every item with a usable key and valid
\* fields is queued, and duplicates are left to the uniqueness check of
\* the commit.
C27_PreCheckFailure == []C27_AllQueued /\ [][C27_GoesOn]_vars

\* ---------------------------------------------- claims on validation
\* A batch whose only irregular items are items that fail validation: every
\* item has a key, at least one does not validate, and none is of the
\* kind that validates without a title.
ValidationCase(batch) ==
    /\ \A i \in DOMAIN batch :
        batch[i].key # NoKey /\ (batch[i].title = NONE => ~Valid(batch[i]))
    /\ \E i \in DOMAIN batch : ~Valid(batch[i])

Invalids(batch) == Cardinality({i \in DOMAIN batch : ~Valid(batch[i])})

\* C28: a validation failure of one item skips that item, counted once, and
\* does not abort the batch: the loop examines every other item and queues
\* the new and valid ones.
C28_SkipsOnlyInvalid ==
    \A p \in Procs :
        (ValidationCase(processed_articles[p])
            /\ pc[p] \in {"commit", "rollback", "done"}
            /\ ~Happened(p, "precheck_failed"))
        => /\ outcome[p] # "raised"
           /\ \A i \in DOMAIN articles_to_add[p] : Valid(articles_to_add[p][i])
           /\ pc[p] = "commit" =>
                /\ articles_skipped_count[p] + Len(articles_to_add[p])
                        = Len(processed_articles[p])
                /\ articles_skipped_count[p] >= Invalids(processed_articles[p])
           /\ source = "gnews" =>
                LET New(item) == Valid(item) /\ item.key \notin existing[p]
                IN articles_to_add[p] = SelectSeq(processed_articles[p], New)

\* ------------------------------------------- claims on the log levels
\* C29: a commit that fails on a uniqueness violation is logged at warning
\* level, never at error level; any other commit failure is logged at
\* error level; in both cases the call has rolled back when it ends.
C29_CommitFailureSeverity ==
    \A p \in Procs :
        /\ \A i \in DOMAIN trace[p] :
            /\ trace[p][i].what = "IntegrityError"
                => trace[p][i].level = "warning"
            /\ trace[p][i].what = "OtherError"
                => trace[p][i].level = "error"
        /\ (pc[p] = "done" /\ outcome[p] \in {"IntegrityError", "OtherError"})
            => Happened(p, "rollback")

\* ------------------------------------------- claims on the run's order
\* The candidates before position n that the run processes.
Earlier(p, n) ==
    LET Prc(c) == Processed(source, c)
    IN SelectSeq(SubSeq(articles[p], 1, n - 1), Prc)

\* While an article is fetched or summarized, every earlier candidate of
\* the batch has been processed and appended, in batch order, and the
\* fetches started are one more than the articles appended; between two
\* articles they are as many.
C30_OneAtATime ==
    \A p \in Procs :
        /\ pc[p] \in {"fetch", "summarize"} =>
            /\ idx[p] \in DOMAIN articles[p]
            /\ Origins(processed_articles[p]) = Earlier(p, idx[p])
            /\ calls[p].fetcher = Len(processed_articles[p]) + 1
        /\ pc[p] = "article" =>
            /\ Origins(processed_articles[p]) = Earlier(p, idx[p])
            /\ calls[p].fetcher = Len(processed_articles[p])
        /\ pc[p] = "summarize" => text[p] # NONE

\* The steps of one article come in the order fetch (with extraction),
\* summarize, append; a fetch starts only between two articles.
C30_StepOrder ==
    \A p \in Procs :
        /\ (pc'[p] = "fetch" /\ pc[p] # "fetch") => pc[p] = "article"
        /\ (pc'[p] = "summarize" /\ pc[p] # "summarize") => pc[p] = "fetch"
        /\ calls'[p].fetcher > calls[p].fetcher =>
            pc[p] = "article" /\ pc'[p] = "fetch"
        /\ (pc[p] \in {"fetch", "summarize"} /\ pc'[p] # pc[p]) =>
            \/ pc[p] = "fetch" /\ pc'[p] = "summarize"
            \/ /\ pc'[p] = "article"
               /\ Len(processed_articles'[p]) = Len(processed_articles[p]) + 1
               /\ idx'[p] = idx[p] + 1
            \/ pc'[p] = "done" /\ run'[p] = "raised"

\* C30: within one run the articles are processed strictly one at a time
\* in batch order: for each article fetch, extract, summarize in that
\* order, and the fetch of the next article never starts before the
\* ProcessedArticle of the one before has been appended.
C30_Sequential == []C30_OneAtATime /\ [][C30_StepOrder]_vars

\* The second article of a batch is being summarized, the first one is in
\* the output.
C30_Witness ==
    \E p \in Procs :
        /\ source = "gnews"
        /\ pc[p] = "summarize"
        /\ idx[p] = MaxBatch
        /\ Len(processed_articles[p]) = MaxBatch - 1
        /\ sumlog[p] = <<"ai">>
        /\ calls[p].fetcher = MaxBatch

\* C31: at most one run of the scheduled job is in flight at any time: while
\* a run is executing, a firing of the job starts no second run.
C31_OneInFlight == Cardinality(Running) <= 1

C31_NoSecondStart ==
    Running # {} => \A q \in Procs : ~ENABLED StartRun(q)

C31_NoOverlap == C31_OneInFlight /\ C31_NoSecondStart

\* A run is in the middle of persist with rows queued, the other worker is
\* idle, and the process is serving with the job registered.
C31_Witness ==
    /\ process.phase = "serving"
    /\ JobId \in process.jobs
    /\ \E p \in Procs :
        /\ pc[p] = "commit"
        /\ articles_to_add[p] # <<>>
        /\ \A q \in Procs \ {p} : pc[q] = "idle" /\ ~ENABLED StartRun(q)

\* C32: the container is the first article element if there is one, else
\* the first main element, else the first element with role main, else the
\* whole document; the words of the result are those of the paragraphs
\* inside the container and of nothing else; the empty input gives the
\* empty text.
Chosen(doc) ==
    LET firstOf(set) == IF set = {} THEN 0
                        ELSE CHOOSE i \in set : \A j \in set : i <= j
        live == {i \in 1..Len(doc) : doc[i].tag # "script"}
        articles_ == {i \in live : doc[i].tag = "article"}
        mains == {i \in live : doc[i].tag = "main"}
        landmarks == {i \in live : doc[i].role = "main"}
    IN  IF articles_ # {} THEN firstOf(articles_)
        ELSE IF mains # {} THEN firstOf(mains)
        ELSE IF landmarks # {} THEN firstOf(landmarks)
        ELSE 0

Inside(doc, c, i) == c = 0 \/ c \in Ancestors(doc, i)

InParagraph(doc, c, i) ==
    \E para \in 1..Len(doc) :
        /\ doc[para].tag = "p"
        /\ Inside(doc, c, para)
        /\ (i = para \/ para \in Ancestors(doc, i))

WordsOf(lines) ==
    UNION {{lines[l][w] : w \in 1..Len(lines[l])} : l \in 1..Len(lines)}

C32_Container ==
    \A p \in Procs :
        (unit[p].fn = "extract" /\ unit[p].at = "done") =>
            LET doc == unit[p].html
                c == Chosen(doc)
            IN  /\ doc = <<>> => unit[p].ret = <<>>
                /\ WordsOf(unit[p].ret) =
                        {i \in 1..Len(doc) :
                            /\ doc[i].tag # "script"
                            /\ doc[i].string = "word"
                            /\ InParagraph(doc, c, i)}

\* A page with an article that holds a paragraph, and a paragraph with a
\* word outside it: only the first is in the result.
C32_Witness ==
    \E p \in Procs :
        /\ unit[p].fn = "extract"
        /\ unit[p].at = "done"
        /\ Len(unit[p].html) = 3
        /\ unit[p].html[1].tag = "article"
        /\ unit[p].html[2] = [tag |-> "p", role |-> NONE, string |-> "word",
                              parent |-> 1]
        /\ unit[p].html[3] = [tag |-> "p", role |-> NONE, string |-> "word",
                              parent |-> 0]
        /\ unit[p].ret = <<(<<2>>)>>

Repeated(p) ==
    {k \in Keys \ existing[p] :
        \E i, j \in DOMAIN processed_articles[p] :
            /\ i # j
            /\ processed_articles[p][i].key = k
            /\ processed_articles[p][j].key = k
            /\ WellFormed(processed_articles[p][i])
            /\ WellFormed(processed_articles[p][j])}

Queued(p, k) ==
    Cardinality({i \in DOMAIN articles_to_add[p] :
                    articles_to_add[p][i].key = k})

\* After the loop both items are queued, the call never commits, and when it
\* returns it returns (0, len(batch)).
C34_BothQueued ==
    \A p \in Procs :
        (pc[p] \in {"commit", "rollback", "done"} /\ Repeated(p) # {}
                /\ outcome[p] # "raised") =>
            /\ \A k \in Repeated(p) : Queued(p, k) >= 2
            /\ outcome[p] \in {"none", "IntegrityError", "OtherError"}
            /\ (pc[p] = "done" /\ result[p].kind = "counts") =>
                    result[p] = Counts(0, Len(processed_articles[p]))

\* The commit of such a batch fails and stores nothing of it.
C34_StoresNone ==
    \A p \in Procs :
        (pc[p] = "commit" /\ pc'[p] # "commit" /\ Repeated(p) # {}) =>
            /\ storage' = storage
            /\ outcome'[p] \in {"IntegrityError", "OtherError"}
            /\ pc'[p] = "rollback"

\* C34: the pre-check does not remove a key repeated inside the batch: both
\* items are queued, the commit fails, the whole batch is rolled back and
\* persist returns (0, len(batch)), having stored none of the batch's items.
C34_RepeatedKey == []C34_BothQueued /\ [][C34_StoresNone]_vars

\* A batch of three with one url twice and another url once came back as
\* (0, 3) after a uniqueness violation, and none of its urls is stored.
C34_Witness ==
    \E p \in Procs :
        /\ pc[p] = "done"
        /\ Len(processed_articles[p]) = MaxBatch + 1
        /\ Repeated(p) # {}
        /\ Cardinality(KeysOf(processed_articles[p])) >= 2
        /\ outcome[p] = "IntegrityError"
        /\ result[p] = Counts(0, MaxBatch + 1)
        /\ storage = <<>>

\* ------------------------------------------- a batch with no survivor
\* The loop of p's call has ended with nothing queued: every item lacked a
\* key, was already stored or failed validation.
NoSurvivor(p) == pc[p] = "done" /\ outcome[p] = "nothing"

\* The call made neither a commit nor a rollback, and its session has
\* nothing pending and needs no rollback.
C35_NoDatabaseCall ==
    \A p \in Procs :
        NoSurvivor(p) =>
            /\ Times(p, "commit") = 0
            /\ Times(p, "rollback") = 0
            /\ articles_to_add[p] = <<>>
            /\ session[p] = "ok"

\* The step that ends such a call leaves the table as it is.
C35_StorageKept ==
    \A p \in Procs :
        (pc[p] # "done" /\ pc'[p] = "done" /\ outcome'[p] = "nothing")
            => storage' = storage

C35_Frame == []C35_NoDatabaseCall /\ [][C35_StorageKept]_vars

\* C35: when no item of the batch survives filtering, persist makes neither
\* a commit nor a rollback, leaves the table and the session's pending set
\* unchanged, and returns added_count = 0.
C35_NothingToStore ==
    /\ C35_NoDatabaseCall
    /\ \A p \in Procs :
        NoSurvivor(p) =>
            /\ result[p].kind = "counts"
            /\ result[p].added = 0

\* --------------------------------------------- persist within a firing
InPersist(p) == pc[p] \in {"precheck", "loop", "commit", "rollback"}

InRun(p) == pc[p] \in {"headlines", "article", "fetch", "summarize"}

FiringRaised(p) ==
    run[p] # "none" /\ (run[p] = "raised" \/ result[p].kind = "raised")

\* While persist is at work in a firing, the run has returned and its list
\* holds one record for every article the run processes.
C36_AfterLastArticle ==
    \A p \in Procs :
        (run[p] # "none" /\ InPersist(p)) =>
            /\ run[p] = "returned"
            /\ Len(sumlog[p]) = Len(processed_articles[p])
            /\ Len(processed_articles[p]) =
                    Cardinality({i \in DOMAIN articles[p] :
                                    Processed(source, articles[p][i])})

\* The table is written by the commit step of a firing whose run has
\* returned, and by that step only: never while a run is at an article.
C36_WriteStep ==
    storage' # storage =>
        /\ \A q \in Procs : ~InRun(q)
        /\ \E p \in Procs :
            /\ pc[p] = "commit"
            /\ run[p] = "returned"
            /\ outcome'[p] = "committed"
            /\ result'[p].kind = "counts"

\* A firing whose run or persist raised has committed nothing, and goes on
\* to the rollback of the job.
C36_RaisedKeeps ==
    \A p \in Procs :
        FiringRaised(p) =>
            /\ outcome[p] # "committed"
            /\ pc[p] \in {"done", "jobrollback", "close"}

C36_RolledBack ==
    \A p \in Procs :
        (FiringRaised(p) /\ pc[p] = "done" /\ pc'[p] # "done")
            => pc'[p] = "jobrollback" /\ storage' = storage

\* C36: in a firing persist is called only after the run has processed its
\* last article, so the table is not written while articles are fetched or
\* summarized; a firing whose run or persist raises is rolled back and
\* leaves the table as it was.
C36_PersistLast ==
    /\ [](C36_AfterLastArticle /\ C36_RaisedKeeps)
    /\ [][C36_WriteStep /\ C36_RolledBack]_vars

\* A firing over two articles is in the rollback of the job after its
\* persist raised, with nothing stored.
C36_Witness ==
    \E p \in Procs :
        /\ pc[p] = "jobrollback"
        /\ result[p].kind = "raised"
        /\ Len(articles[p]) = 2
        /\ Len(processed_articles[p]) = 2
        /\ storage = <<>>

\* C37: an empty or whitespace-only response of the model is a failed
\* summarization: the record of that article has the description as its
\* summary and no summary_generated_at, and no stored row has a timestamp
\* with an empty summary.
C37_EmptyIsFailure ==
    /\ \A p \in Procs :
        Len(sumlog[p]) = Len(processed_articles[p]) =>
            \A i \in DOMAIN processed_articles[p] :
                sumlog[p][i] = "empty" =>
                    /\ processed_articles[p][i].summary =
                            processed_articles[p][i].description
                    /\ ~processed_articles[p][i].summary_generated_at
    /\ \A i \in DOMAIN storage :
        storage[i].summary_generated_at =>
            storage[i].summary \notin {"", NONE}

\* The row of an article whose summarization gave an empty text is stored
\* with the description and without a timestamp.
C37_Witness ==
    \E p \in Procs : \E i \in DOMAIN sumlog[p] :
        /\ Len(sumlog[p]) = Len(processed_articles[p])
        /\ sumlog[p][i] = "empty"
        /\ outcome[p] = "committed"
        /\ \E j \in DOMAIN storage :
            /\ storage[j].key = processed_articles[p][i].key
            /\ storage[j].summary = "desc"
            /\ ~storage[j].summary_generated_at

\* ------------------------------------------ the candidate's own fields
\* The candidates of p's firing that the run processes, in order.
Originals(p) ==
    LET Keep(c) == Processed(source, c) IN SelectSeq(articles[p], Keep)

\* C38: every record of the run's output has the natural key, title, link
\* and description of the candidate it was made from, whatever the
\* summarization gave; only summary and summary_generated_at come from the
\* run.
C38_OwnFieldsKept ==
    \A p \in Procs :
        (run[p] # "none" /\ Len(sumlog[p]) = Len(processed_articles[p])) =>
            /\ Len(processed_articles[p]) <= Len(Originals(p))
            /\ \A i \in DOMAIN processed_articles[p] :
                LET a == processed_articles[p][i]
                    c == Originals(p)[i]
                IN  /\ a.key = c.key
                    /\ a.title = c.title
                    /\ a.link = c.link
                    /\ a.description = c.description
                    /\ a.summary \in {"ai", c.description}

\* Two records of one run: one has the model's summary, the other fell back
\* to its description; both have their candidate's description.
C38_Witness ==
    \E p \in Procs :
        /\ run[p] = "returned"
        /\ Len(processed_articles[p]) = 2
        /\ Len(sumlog[p]) = 2
        /\ sumlog[p][1] = "ai"
        /\ sumlog[p][2] # "ai"
        /\ processed_articles[p][1].summary = "ai"
        /\ processed_articles[p][1].description = "desc"
        /\ articles[p][1].description = "desc"
        /\ processed_articles[p][2].summary = "desc"
        /\ processed_articles[p][1].key # processed_articles[p][2].key

\* ------------------------------------------------ the registered job
\* No job other than hourly_article_processing is ever registered, none
\* before the application serves; a firing is a run of that job, which is
\* the URL-keyed pipeline; every stored row was written by such a firing,
\* into the table of the URL-keyed persist.
C39_OnlyTheGnewsJob ==
    /\ process.jobs \subseteq {JobId}
    /\ process.phase # "serving" => process.jobs = {}
    /\ \A p \in Procs :
        run[p] # "none" => JobId \in process.jobs /\ source = "gnews"
    /\ storage # <<>> => JobId \in process.jobs /\ source = "gnews"

\* C39: after startup exactly one job is registered, with the id
\* hourly_article_processing; it runs the URL-keyed pipeline, and no firing
\* writes to the table of the article_id-keyed persist.
C39_ExactlyOneJob ==
    /\ process.phase = "serving" => process.jobs = {JobId}
    /\ C39_OnlyTheGnewsJob

\* At most one job is registered after startup, the one with the id
\* hourly_article_processing, or none when its registration failed; without
\* the job no firing starts.
C39_AtMostOneJob ==
    /\ C39_OnlyTheGnewsJob
    /\ process.jobs = {} => \A p \in Procs : ~ENABLED StartRun(p)

====
